---- MODULE Spec2Model ----
(***************************************************************************)
(* A model of the Topicsync / chatroom state machine                       *)
(* (src/src/chatroom/state_machine/state_machine.py, transition_tree.py,   *)
(* topic.py, change.py, utils.py) and of the string operational transform  *)
(* (src/src/chatroom/change.py, string_diff.py).                           *)
(*                                                                         *)
(* Python control flow is modelled by recursive operators on a machine     *)
(* record m.  A raised exception is the field m.exc: every operator that   *)
(* sequences two statements skips the second when the first left m.exc     *)
(* set, a try/except clears it, a finally runs regardless.                 *)
(***************************************************************************)
EXTENDS Integers, Sequences, FiniteSets, TLC

\* ------------------------------------------------------------------ bounds
\* topic values are 0..MaxVal
MaxVal == 2
\* statements in the body of one record scope
MaxBody == 2
\* transitions the observer (transition_callback) remembers
MaxHist == 1
\* nesting of record scopes opened from inside the after-transition loop
MaxDepth == 2
\* tasks an earlier run may have left in the queue when a new run starts
MaxStale == 0
\* connected clients
MaxClients == 2
\* subscriptions held at once
MaxSubs == 1
\* action messages the server handles in one behaviour
MaxActions == 1
\* messages waiting in the sending queue when a handler starts
MaxPending == 0
\* length of the string a StringTopic starts with
MaxStr == 3
\* length of an inserted text
MaxIns == 1

\* ------------------------------------------------------------- vocabulary
Topics == {"a", "b", "c", "n"}
Values == 0 .. MaxVal
None == "none"

\* user callbacks registered on Topic.on_set (the tests' lambdas):
\*   LSet(t, catch): lambda value: t.set(value), wrapped in try/except when catch
\*   LRaise(v):      raises when the new value is v
\*   LAfter(t):      lambda value: machine.do_after_transition(lambda: t.set(value))
LSet(t, catch) == [kind |-> "set", target |-> t, catch |-> catch, on |-> 0]
LRaise(v) == [kind |-> "raise", target |-> "a", catch |-> FALSE, on |-> v]
LAfter(t) == [kind |-> "after", target |-> t, catch |-> FALSE, on |-> 0]

NoListeners == [t \in Topics |-> <<>>]
NoValidators == [t \in Topics |-> {}]
\* add_topic(name, type, is_stateful): "n" is the non-stateful topic
IsStateful == [t \in Topics |-> t # "n"]

\* A configuration: the auto and manual callbacks on each topic's on_set hub
\* (Action.add_auto / Action.add_manual, in registration order) and, per topic,
\* the values its validators reject (Topic.add_validator).
Cfg(auto, manual, bad) == [auto |-> auto, manual |-> manual, bad |-> bad]

\* test_chain / test_failed_transition: a -> b -> c, a validator on c
CfgChain ==
    Cfg([NoListeners EXCEPT !["a"] = <<LSet("b", FALSE)>>, !["b"] = <<LSet("c", FALSE)>>],
        NoListeners,
        [NoValidators EXCEPT !["c"] = {2}])

\* test_fail_subtrees_2: a fans out to c and b, b's listener raises after its
\* own cascade, a's listener on b catches
CfgSubtree ==
    Cfg([NoListeners EXCEPT !["a"] = <<LSet("n", FALSE), LSet("b", TRUE)>>,
                            !["b"] = <<LSet("c", FALSE), LRaise(2)>>],
        NoListeners,
        NoValidators)

\* manual listeners that change other topics; b has an auto listener
CfgManual ==
    Cfg([NoListeners EXCEPT !["b"] = <<LSet("c", FALSE)>>, !["n"] = <<LSet("c", FALSE)>>],
        [NoListeners EXCEPT !["a"] = <<LSet("b", FALSE)>>],
        [NoValidators EXCEPT !["c"] = {2}])

\* a manual listener that raises
CfgManualRaise ==
    Cfg([NoListeners EXCEPT !["a"] = <<LSet("b", TRUE)>>],
        [NoListeners EXCEPT !["b"] = <<LRaise(2)>>],
        NoValidators)

\* test_run_after_transition: a task queued by the first auto listener
CfgAfter ==
    Cfg([NoListeners EXCEPT !["a"] = <<LAfter("c"), LSet("b", FALSE)>>],
        NoListeners,
        [NoValidators EXCEPT !["b"] = {2}])

\* a validator that rejects the value the topic starts with
CfgRejectInit ==
    Cfg([NoListeners EXCEPT !["a"] = <<LSet("b", FALSE)>>],
        NoListeners,
        [NoValidators EXCEPT !["a"] = {0}, !["b"] = {2}])

\* a task offered by a manual listener, and one offered by the auto listener
\* of a topic that a manual listener sets
CfgManualAfter ==
    Cfg([NoListeners EXCEPT !["b"] = <<LAfter("c")>>],
        [NoListeners EXCEPT !["a"] = <<LAfter("c"), LSet("b", FALSE)>>],
        NoValidators)

Configs == {CfgChain, CfgSubtree, CfgManual, CfgManualRaise, CfgAfter, CfgRejectInit}

VARIABLES
    cfg,    \* the listeners and validators registered on the topics
    sm,     \* the StateMachine object, its topics' values, and the run's log
    history, \* TRUE when transition_callback is a history's add_transition
    trans,  \* the transitions that history holds (the last MaxHist)
    net,    \* the server's ClientManager: subscriptions and the sending queue
    ot,     \* two StringTopic objects given the same two changes in opposite orders
    topicval, \* one topic value and the change objects applied to it
    clients, \* one server topic, its clients' copies and the messages between them
    threads, \* the threads that use one StateMachine, and its lock
    ub      \* the UpdateBuffer: the changes kept for the next flush, and what was sent

vars == <<cfg, sm, history, trans, net, ot, topicval, clients, threads, ub>>

\* ------------------------------------------------------------------ changes
\* SetChange(topic_name, value, old_value): oid is the object's identity within
\* the run, inv the oid of the change it was built from by inverse() (0: none)
NewSetChange(t, v) == [topic |-> t, value |-> v, old |-> None, oid |-> 0, inv |-> 0]

\* SetChange.apply: records the value it replaces and returns the new value
SetApply(ch, cur) == [ch EXCEPT !.old = cur]

\* an inverse that sets the value the change itself set
C2_InverseSame(ch) == [topic |-> ch.topic, value |-> ch.value, old |-> ch.old, oid |-> 0, inv |-> ch.oid]

\* the EventTopic of the machine, added with is_stateful = False and with no
\* listener on on_emit
EventName == "e"

\* EventChangeTypes.EmitChange(topic_name): apply() returns None
EmitChange == [topic |-> EventName, value |-> 0, old |-> 0, oid |-> 0, inv |-> 0]

\* not isinstance(change, (EmitChange, ReversedEmitChange)): an event topic
\* takes no other change and no other topic takes these
NotEvent(c) == c.topic # EventName

\* SetChange.inverse: SetChange(topic_name, old_value, value)
Inverse(ch) == [topic |-> ch.topic, value |-> ch.old, old |-> ch.value, oid |-> 0, inv |-> ch.oid]

\* Topic._validate_change_and_get_result: every validator accepts the new value
Validates(t, v) == v \notin cfg.bad[t]

\* --------------------------------------------------------- transition tree
\* TransitionTree: nodes[1] is the RootNode, every other node carries a change
RootId == 1
NewTree == <<[parent |-> 0, change |-> NewSetChange("a", 0), children |-> <<>>]>>

\* TransitionTree.add_child: a node under the cursor, appended to its children
AddChild(nodes, cursor, ch) ==
    LET id == Len(nodes) + 1
    IN  Append([nodes EXCEPT ![cursor].children = Append(@, id)],
               [parent |-> cursor, change |-> ch, children |-> <<>>])

\* list.remove(x): the list without its first occurrence of x
RECURSIVE ListRemove(_, _)
ListRemove(s, x) ==
    IF s = <<>> THEN <<>>
    ELSE IF Head(s) = x THEN Tail(s)
    ELSE <<Head(s)>> \o ListRemove(Tail(s), x)

\* Node.clear_subtree, line 32: self.parent.children.remove(self)
RemoveNode(s, x) == ListRemove(s, x)

\* a traversal that yields a node after its children
RECURSIVE C6_ChildrenFirst(_, _)
RECURSIVE C6_ChildrenFirstAll(_, _)
C6_ChildrenFirstAll(nodes, ids) ==
    IF ids = <<>> THEN <<>>
    ELSE C6_ChildrenFirst(nodes, Head(ids)) \o C6_ChildrenFirstAll(nodes, Tail(ids))

C6_ChildrenFirst(nodes, n) ==
    C6_ChildrenFirstAll(nodes, nodes[n].children)
        \o (IF n = RootId THEN <<>> ELSE <<nodes[n].change>>)

\* TransitionTree.preorder_traversal
RECURSIVE Preorder(_, _)
RECURSIVE PreorderAll(_, _)
PreorderAll(nodes, ids) ==
    IF ids = <<>> THEN <<>>
    ELSE Preorder(nodes, Head(ids)) \o PreorderAll(nodes, Tail(ids))

Preorder(nodes, n) ==
    (IF n = RootId THEN <<>> ELSE <<nodes[n].change>>) \o PreorderAll(nodes, nodes[n].children)

\* ---------------------------------------------------------- state machine
Phases == {"IDLE", "FORWARDING", "UNDOING", "REDOING"}

\* a record() that emits its transition whatever emit_transition says
C22_EmitAlways(source, aid, emit, phase) ==
    [source |-> source, aid |-> aid, emit |-> TRUE, phase |-> phase]

\* record()'s keyword arguments
RecordArgs(source, aid, emit, phase) ==
    [source |-> source, aid |-> aid, emit |-> emit, phase |-> phase]

\* record() called with no arguments (apply_change's implicit scope)
DefaultArgs == RecordArgs(0, "", TRUE, "FORWARDING")

\* StateMachine.__init__, with the topics added at their default value
NewMachine ==
    [val |-> [t \in Topics |-> 0],
     rec |-> FALSE, phase |-> "IDLE", mode |-> "MANUAL", err |-> "NO_ERROR",
     cl |-> <<>>, nodes |-> <<>>, cursor |-> 0,
     lists |-> << <<>> >>, tref |-> 1,
     args |-> DefaultArgs, exc |-> None, cfail |-> FALSE,
     \* which of the callbacks given to __init__ raises: "none", "changes"
     \* (changes_callback) or "transition" (transition_callback)
     cbfail |-> "none",
     \* the run's log (no field of the program reads these)
     nobj |-> 0, ntask |-> 0, depth |-> 0, steps |-> 0,
     entry |-> [t \in Topics |-> 0],
     applied |-> <<>>, reverted |-> <<>>, rejected |-> 0, fired |-> <<>>,
     dirty |-> {}, recov |-> 0, recfail |-> FALSE, lastfail |-> FALSE, crit |-> FALSE,
     rolls |-> <<>>, last |-> [kind |-> "none", allow |-> FALSE, exc |-> None, n |-> 0],
     emits |-> <<>>, critat |-> <<>>, critcaught |-> FALSE,
     failedat |-> <<>>, offers |-> <<>>,
     taskruns |-> <<>>, done |-> <<>>, nested |-> 0, raised |-> None,
     op |-> [kind |-> "init", idx |-> 0, before |-> [t \in Topics |-> 0]]]

\* try: t.set(v) / except: pass, around the call that left m1 from m0: the
\* exception is dropped (the log marks the rollback of the change the call proposed)
Caught(m0, m1) ==
    LET k == Len(m1.rolls)
    IN  [m1 EXCEPT !.exc = None,
                   !.critcaught = @ \/ m1.err = "CRITICAL",
                   !.rolls = IF k > Len(m0.rolls) /\ m1.rolls[k].x = m0.nobj + 1
                             THEN [@ EXCEPT ![k].caught = TRUE] ELSE @]

\* the call that left m1 from m0, inside try/except when catch
CatchIf(catch, m0, m1) == IF m1.exc # None /\ catch THEN Caught(m0, m1) ELSE m1

\* line 242: the auto hub of a recorded change is notified
FiresAuto(m) == m.phase = "FORWARDING" /\ m.err = "NO_ERROR"

\* a test that records every change of a stateful topic, whatever the mode
C29_OnlyStateless(m, t) == ~IsStateful[t]

\* line 208: the change is not recorded in the transition tree
Unrecorded(m, t) == ~IsStateful[t] \/ m.mode = "MANUAL"

\* an append that enters the change twice
C7_AppendTwice(cl, ch) == Append(Append(cl, ch), ch)

\* line 206 and transition_tree.py line 31: changes_list.append
AppendChange(cl, ch) == Append(cl, ch)

RECURSIVE ApplyChange(_, _)
RECURSIVE TopicSet(_, _, _)
RECURSIVE Invoke(_, _, _, _, _)
RECURSIVE Callback(_, _, _)
RECURSIVE NotifyListeners(_, _, _, _)
RECURSIVE NodeClearSubtree(_, _)
RECURSIVE ClearChildren(_, _)
RECURSIVE ApplyInverse(_, _)
RECURSIVE NotifyUnrecorded(_, _, _)
RECURSIVE NotifyRecorded(_, _, _)
RECURSIVE AutoNotified(_, _, _)
RECURSIVE Recorded(_, _, _, _)
RECURSIVE TryRecover(_)
RECURSIVE Recovered(_)
RECURSIVE RecordExit(_)
RECURSIVE RecordFinally(_)
RECURSIVE TasksDone(_, _)
RECURSIVE RunTasks(_, _, _)
RECURSIVE RunTask(_, _)
RECURSIVE DoAfterTransition(_, _)

\* Node.clear_subtree, lines 23-24: the children, last first (a cleared child
\* removes itself from the list; an exception ends the loop)
ClearChildren(m, n) ==
    LET kids == m.nodes[n].children
    IN  IF kids = <<>> \/ m.cfail THEN m
        ELSE ClearChildren(NodeClearSubtree(m, kids[Len(kids)]), n)

\* Node.clear_subtree, lines 25-32: the node's own inverse, applied through
\* Topic.apply_change (which validates), appended to the changes list
ApplyInverse(m1, n) ==
    IF m1.cfail \/ n = RootId THEN m1
    ELSE LET ch  == m1.nodes[n].change
             inv == [SetApply(Inverse(ch), m1.val[ch.topic]) EXCEPT !.oid = m1.nobj + 1]
             par == m1.nodes[n].parent
         IN  IF ~Validates(ch.topic, inv.value)
             THEN [m1 EXCEPT !.cfail = TRUE]
             ELSE [m1 EXCEPT !.val[ch.topic] = inv.value,
                             !.cl = AppendChange(@, inv),
                             !.nodes[par].children = RemoveNode(@, n),
                             !.nobj = @ + 1,
                             !.reverted = Append(@, ch.oid)]

\* Node.clear_subtree
NodeClearSubtree(m, n) == ApplyInverse(ClearChildren(m, n), n)

\* a recovery that leaves the failed changes in place
C1_NoRecover(m) == m

\* StateMachine._try_recover, lines 168-173: m1 is the machine after clear_subtree
Recovered(m1) ==
    IF m1.cfail
    THEN \* except: CRITICAL; raise; finally: NO_ERROR
         \* (log: the recoveries begun when one first failed)
         [m1 EXCEPT !.err = "NO_ERROR", !.exc = "InvalidChange",
                    !.cfail = FALSE, !.recfail = TRUE, !.lastfail = TRUE,
                    !.failedat = IF @ = <<>> THEN <<m1.recov>> ELSE @]
    ELSE [m1 EXCEPT !.err = "NO_ERROR", !.lastfail = FALSE]

\* StateMachine._try_recover
TryRecover(m) ==
    IF m.err = "CRITICAL" THEN m
    ELSE Recovered(NodeClearSubtree([m EXCEPT !.err = "RECOVERING", !.recov = @ + 1],
                                    m.cursor))

\* StateMachine.record, up to the yield
RecordEnter(m, args) ==
    [m EXCEPT !.rec = TRUE, !.phase = args.phase, !.mode = "AUTO", !.err = "NO_ERROR",
              !.cl = <<>>, !.nodes = NewTree, !.cursor = RootId, !.args = args,
              !.entry = m.val, !.applied = <<>>, !.reverted = <<>>, !.rejected = 0,
              !.fired = <<>>, !.dirty = {}, !.recov = 0, !.recfail = FALSE,
              !.crit = FALSE, !.steps = 0, !.nested = 0, !.rolls = <<>>, !.lastfail = FALSE,
              !.emits = <<>>, !.critat = <<>>, !.critcaught = FALSE,
              !.failedat = <<>>]

\* Action.invoke: the callbacks of one hub, in registration order
Invoke(m, t, auto, i, v) ==
    LET ls == IF auto THEN cfg.auto[t] ELSE cfg.manual[t]
    IN  IF i > Len(ls) \/ m.exc # None THEN m
        ELSE Invoke(Callback([m EXCEPT !.fired = Append(@, [topic |-> t, auto |-> auto,
                                                             phase |-> m.phase, mode |-> m.mode])],
                             ls[i], v),
                    t, auto, i + 1, v)

\* Topic.notify_listeners
NotifyListeners(m, t, auto, v) == Invoke(m, t, auto, 1, v)

\* one registered callback
Callback(m, l, v) ==
    CASE l.kind = "set" -> CatchIf(l.catch, m, TopicSet(m, l.target, v))
      [] l.kind = "raise" ->
            IF v = l.on THEN [m EXCEPT !.exc = "ListenerError"] ELSE m
      [] l.kind = "after" ->
            DoAfterTransition(m, [topic |-> l.target, value |-> v, tid |-> m.ntask + 1])

\* Topic.set: nothing when the value is the current one
TopicSet(m, t, v) ==
    IF v = m.val[t] THEN m ELSE ApplyChange(m, NewSetChange(t, v))

\* the task a listener hands to do_after_transition: lambda: t.set(value)
RunTask(m, task) ==
    TopicSet([m EXCEPT !.taskruns = Append(@, task.tid)], task.topic, task.value)

\* a do_after_transition that queues the task whatever the phase
C31_QueueAlways(m, task) ==
    [m EXCEPT !.ntask = @ + 1, !.lists[m.tref] = Append(@, task),
              !.offers = Append(@, [tid |-> task.tid, phase |-> m.phase])]

\* StateMachine.do_after_transition
\* (log: the task and the phase it was offered in)
DoAfterTransition(m, task) ==
    LET m1 == [m EXCEPT !.ntask = @ + 1,
                        !.offers = Append(@, [tid |-> task.tid, phase |-> m.phase])]
    IN  IF m.phase = "IDLE" THEN RunTask(m1, task)
        ELSE IF m.phase = "FORWARDING"
        THEN [m1 EXCEPT !.lists[m.tref] = Append(@, task)]
        ELSE m1

\* apply_change, lines 208-218: m2 is the machine after the manual hub of the
\* unrecorded change ch; the auto hub follows, whatever the phase, and
\* enter_manual_mode restores the mode
NotifyUnrecorded(m, ch, m2) ==
    [(IF m2.exc = None THEN NotifyListeners(m2, ch.topic, TRUE, ch.value) ELSE m2)
        EXCEPT !.mode = m.mode]

\* apply_change, lines 245-252 and the end of move_cursor: m6 is the machine
\* after the auto hub and, when rolled, after _try_recover
\* (log: the values and the tree around the change and its rollback)
Recorded(m, ch, rolled, m6) ==
    LET roll == [x |-> ch.oid, pre |-> m.val, post |-> m6.val,
                 tpre |-> Preorder(m.nodes, RootId),
                 tpost |-> Preorder(m6.nodes, RootId),
                 dirty |-> m6.dirty, failed |-> m6.lastfail,
                 caught |-> FALSE]
    IN  [m6 EXCEPT !.cursor = m.cursor, !.dirty = @ \cup m.dirty,
                   !.rolls = IF rolled THEN Append(@, roll) ELSE @]

\* apply_change, lines 245-252: m5 is the machine after the auto hub
AutoNotified(m, ch, m5) ==
    IF m5.exc # None /\ IsStateful[ch.topic] /\ m5.err = "NO_ERROR"
    THEN Recorded(m, ch, TRUE, TryRecover(m5))
    ELSE Recorded(m, ch, FALSE, m5)

\* (log: what had been reverted and recovered when the manual hub first failed)
CritAt(m3) == IF m3.critat = <<>> THEN <<Len(m3.reverted), m3.recov>> ELSE m3.critat

\* an apply_change that leaves the error state as it is when the manual hub fails
C26_NotCritical(m, ch, m3) ==
    IF m3.exc # None
    THEN [m3 EXCEPT !.mode = m.mode, !.crit = TRUE, !.critat = CritAt(m3),
                    !.cursor = m.cursor, !.dirty = @ \cup m.dirty]
    ELSE IF FiresAuto(m3)
    THEN AutoNotified(m, ch, NotifyListeners([m3 EXCEPT !.mode = m.mode],
                                             ch.topic, TRUE, ch.value))
    ELSE AutoNotified(m, ch, [m3 EXCEPT !.mode = m.mode])

\* apply_change, lines 228-244: m3 is the machine after the manual hub of the
\* recorded change ch, still in manual mode
NotifyRecorded(m, ch, m3) ==
    IF m3.exc # None
    THEN [m3 EXCEPT !.mode = m.mode, !.err = "CRITICAL", !.crit = TRUE,
                    !.critat = CritAt(m3),
                    !.cursor = m.cursor, !.dirty = @ \cup m.dirty]
    ELSE IF FiresAuto(m3)
    THEN AutoNotified(m, ch, NotifyListeners([m3 EXCEPT !.mode = m.mode],
                                             ch.topic, TRUE, ch.value))
    ELSE AutoNotified(m, ch, [m3 EXCEPT !.mode = m.mode])

\* StateMachine.apply_change
ApplyChange(m, change) ==
    IF ~m.rec
    THEN \* lines 192-195: with self.record(): self.apply_change(change)
         IF m.depth > MaxDepth THEN [m EXCEPT !.exc = "RecursionError"]
         ELSE RecordExit(ApplyChange(RecordEnter(m, DefaultArgs), change))
    ELSE IF ~Validates(change.topic, change.value)
    THEN [m EXCEPT !.exc = "InvalidChange", !.rejected = @ + 1]
    ELSE LET t  == change.topic
             ch == [SetApply(change, m.val[t]) EXCEPT !.oid = m.nobj + 1]
             \* lines 204-206
             m1 == [m EXCEPT !.val[t] = ch.value, !.cl = AppendChange(@, ch),
                             !.nobj = @ + 1,
                             !.applied = Append(@, [oid |-> ch.oid,
                                                    recorded |-> ~Unrecorded(m, t),
                                                    mode |-> m.mode])]
         IN  IF Unrecorded(m, t)
             THEN NotifyUnrecorded(m, ch,
                      NotifyListeners([m1 EXCEPT !.mode = "MANUAL", !.dirty = @ \cup {t}],
                                      t, FALSE, ch.value))
             ELSE \* lines 223-227: a node under the cursor, the cursor on it
                  NotifyRecorded(m, ch,
                      NotifyListeners([m1 EXCEPT !.nodes = AddChild(@, m.cursor, ch),
                                                 !.cursor = Len(m.nodes) + 1,
                                                 !.dirty = {}, !.mode = "MANUAL"],
                                      t, FALSE, ch.value))

\* a filter that also drops the last change of the list
C21_DropLast(cl) == SubSeq(cl, 1, Len(cl) - 1)

\* a filter that keeps the event changes
C25_KeepEvents(cl) == cl

\* lines 137-139: the event changes are dropped (nothing in the repository
\* makes a NullChange)
Filtered(cl) == SelectSeq(cl, NotEvent)

\* the loop of lines 150-151 over the list object r, from index i
RunTasks(m, r, i) ==
    IF i > Len(m.lists[r]) \/ m.exc # None THEN m
    ELSE RunTasks(RunTask(m, m.lists[r][i]), r, i + 1)

\* what the observers of one scope saw, kept when the scope is cleaned up
Summary(m, pending, tr, emitted) ==
    [entry |-> m.entry, exit |-> m.val, exc |-> pending, args |-> m.args,
     crit |-> m.crit, recfail |-> m.recfail, recov |-> m.recov,
     cl |-> Filtered(m.cl), cb |-> Filtered(m.cl) # <<>>,
     tr |-> tr, emitted |-> emitted,
     applied |-> m.applied, reverted |-> m.reverted, rejected |-> m.rejected,
     fired |-> m.fired, dirty |-> m.dirty, rolls |-> m.rolls, nested |-> m.nested,
     queued |-> m.lists[m.tref], steps |-> m.steps, emits |-> m.emits,
     critat |-> m.critat, critcaught |-> m.critcaught, failedat |-> m.failedat]

\* StateMachine.record, line 152: m3 is the machine after the task loop; a task
\* that raised leaves the finally with its exception in place of the pending
\* one, and the queue as it is
TasksDone(m3, pending) ==
    IF m3.exc # None
    THEN [m3 EXCEPT !.depth = @ - 1]
    ELSE [m3 EXCEPT !.lists = Append(@, <<>>), !.tref = Len(m3.lists) + 1,
                    !.exc = pending, !.depth = @ - 1]

\* StateMachine.record, lines 137-141, when changes_callback raises: the
\* filtered list is in place, the scope is still marked as recording
CallbackRaised(m1, tr, emitted) ==
    [m1 EXCEPT !.done = Append(@, Summary(m1, "CallbackError", tr, emitted)),
               !.cl = Filtered(@), !.exc = "CallbackError"]

\* StateMachine.record, else and finally (lines 122-151): m1 is the machine
\* after the except clause, m1.exc the exception still to be raised
RecordFinally(m1) ==
    LET \* else (lines 122-126); a transition_callback that raises leaves the
        \* else clause with its exception and has kept no transition
        tr == IF m1.exc = None THEN Preorder(m1.nodes, RootId) ELSE <<>>
        called == tr # <<>> /\ m1.args.emit
        emitted == called /\ m1.cbfail # "transition"
        pending == IF called /\ ~emitted THEN "CallbackError" ELSE m1.exc
        \* finally (lines 127-148)
        m2 == [m1 EXCEPT !.done = Append(@, Summary(m1, pending, tr, emitted)),
                         !.exc = None,
                         !.rec = FALSE, !.phase = "IDLE", !.cl = <<>>,
                         !.nodes = <<>>, !.cursor = 0,
                         !.depth = @ + 1]
    IN  IF Filtered(m1.cl) # <<>> /\ m1.cbfail = "changes"
        THEN \* line 141 raises: the rest of the finally clause is not run
             CallbackRaised(m1, tr, emitted)
        ELSE TasksDone(RunTasks(m2, m1.tref, 1), pending)

\* StateMachine.record, from the yield on: the except clause (lines 115-121),
\* then else and finally
RecordExit(m) ==
    IF m.exc # None /\ m.err # "CRITICAL" THEN RecordFinally(TryRecover(m))
    ELSE RecordFinally(m)

\* a nested record() that never refuses
C8_AlwaysEnter(m, allow_reentry) == [m EXCEPT !.nested = @ + 1]

\* StateMachine.record called while a scope may be open (lines 94-100)
RecordNested(m, allow_reentry) ==
    IF m.rec /\ ~allow_reentry THEN [m EXCEPT !.exc = "RuntimeError"]
    ELSE [m EXCEPT !.nested = @ + 1]

\* an undo that applies nothing
C4_UndoNothing(m, chs, i) == m

\* StateMachine.undo's loop: apply_change(change.inverse()) over reversed(changes)
RECURSIVE UndoAll(_, _, _)
UndoAll(m, chs, i) ==
    IF i = 0 \/ m.exc # None THEN m
    ELSE UndoAll(ApplyChange(m, [Inverse(chs[i]) EXCEPT !.inv = 0]), chs, i - 1)

\* StateMachine.redo's loop: apply_change(change) over changes
RECURSIVE RedoAll(_, _, _)
RedoAll(m, chs, i) ==
    IF i > Len(chs) \/ m.exc # None THEN m
    ELSE RedoAll(ApplyChange(m, chs[i]), chs, i + 1)

\* the Transition objects after redo: apply() has rewritten old_value of every
\* change redo reached (the objects are shared with the transition)
RECURSIVE Redone(_, _, _, _)
Redone(m, chs, i, acc) ==
    IF i > Len(chs) THEN acc
    ELSE IF m.exc # None THEN acc \o SubSeq(chs, i, Len(chs))
    ELSE Redone(ApplyChange(m, chs[i]), chs, i + 1,
                Append(acc, SetApply(chs[i], m.val[chs[i].topic])))

\* ------------------------------------------------------------- the actions
\* a new run starts: the observers' logs are cleared, the queued tasks renumbered
Fresh(m, op) ==
    LET q == m.lists[m.tref]
    IN  [m EXCEPT !.done = <<>>, !.nobj = 0, !.taskruns = <<>>, !.raised = None,
                  !.offers = <<>>,
                  !.lists = << [i \in 1 .. Len(q) |-> [q[i] EXCEPT !.tid = i]] >>,
                  !.tref = 1, !.ntask = Len(q), !.steps = 0, !.nested = 0,
                  !.last = [kind |-> "none", allow |-> FALSE, exc |-> None, n |-> 0],
                  !.op = [kind |-> op.kind, idx |-> op.idx, before |-> m.val]]

\* the run ends: the exception (if any) reaches the caller, dead lists are dropped
Finish(m) ==
    [m EXCEPT !.raised = m.exc, !.exc = None,
              !.lists = << m.lists[m.tref] >>, !.tref = 1]

\* Transition(changes, action_source), with the topic values around its scope
TransitionOf(s) ==
    [changes |-> s.tr, source |-> s.args.source, pre |-> s.entry, post |-> s.exit,
     dirty |-> s.dirty]

RECURSIVE Emitted(_, _)
Emitted(done, i) ==
    IF i > Len(done) THEN <<>>
    ELSE (IF done[i].emitted THEN <<TransitionOf(done[i])>> ELSE <<>>) \o Emitted(done, i + 1)

LastN(s, n) == IF Len(s) <= n THEN s ELSE SubSeq(s, Len(s) - n + 1, Len(s))

\* transition_callback: the observer appends what the run's scopes emitted
Observe(m, from) ==
    trans' = IF history THEN LastN(trans \o Emitted(m.done, from), MaxHist) ELSE trans

\* the run that left the machine m1 is over: the caller has its exception, the
\* observer the transitions it emitted
Ended(m1) == sm' = Finish(m1) /\ Observe(m1, 1)

\* ------------------------------------------------------------ string topics
Min(a, b) == IF a <= b THEN a ELSE b
Max(a, b) == IF a >= b THEN a ELSE b

\* string_diff._before / _after: string[:cursor] and string[cursor:], cursor >= 0
Before(string, cursor) == SubSeq(string, 1, Min(cursor, Len(string)))
After(string, cursor) == SubSeq(string, cursor + 1, Len(string))

\* string_diff._valid_pos
ValidPos(string, pos) == pos \in 0 .. Len(string)

\* str.startswith
StartsWith(string, prefix) ==
    Len(prefix) <= Len(string) /\ SubSeq(string, 1, Len(prefix)) = prefix

\* a raised ValueError / InvalidChangeError
Invalid == [ok |-> FALSE, value |-> <<>>]
Valid(v) == [ok |-> TRUE, value |-> v]

\* string_diff.insert
StringInsert(old, pos, string) ==
    IF ~ValidPos(old, pos) THEN Invalid
    ELSE Valid(Before(old, pos) \o string \o After(old, pos))

\* string_diff.delete
StringDelete(old, pos, string) ==
    IF ~ValidPos(old, pos) THEN Invalid
    ELSE IF ~StartsWith(After(old, pos), string) THEN Invalid
    ELSE Valid(Before(old, pos) \o After(old, pos + Len(string)))

\* string_diff._Range
Range(start, len) == [start |-> start, len |-> len, start_base |-> 0]
RangeEnd(r) == r.start + r.len
RelativeTo(r, base) == [start |-> r.start_base + r.start - base, len |-> r.len, start_base |-> base]
IsOverlappedWith(r, other) ==
    IF r.start <= other.start THEN r.start + r.len > other.start
    ELSE other.start + other.len > r.start

\* string_diff._overlap_range
OverlapRange(range1, range2) ==
    IF ~IsOverlappedWith(range1, range2) THEN Range(0, 0)
    ELSE LET start == Max(range1.start, range2.start)
         IN  Range(start, Min(RangeEnd(range1), RangeEnd(range2)) - start)

\* a delete that moves to the smaller start and keeps its whole text
C32_KeepText(applied_start, applied_delete, current_start, current_delete) ==
    <<IF applied_start < current_start
      THEN Max(applied_start, current_start - Len(applied_delete)) ELSE current_start,
      current_delete>>

\* a delete that ignores the delete applied before it
C10_KeepDelete(applied_start, applied_delete, current_start, current_delete) ==
    <<current_start, current_delete>>

\* string_diff.adjust_delete: the (position, deletion) of the current delete
AdjustDelete(applied_start, applied_delete, current_start, current_delete) ==
    LET delete1_range == Range(applied_start, Len(applied_delete))
        delete2_range == Range(current_start, Len(current_delete))
    IN  IF ~IsOverlappedWith(delete1_range, delete2_range)
        THEN IF applied_start < current_start
             THEN <<current_start - delete1_range.len, current_delete>>
             ELSE <<current_start, current_delete>>
        ELSE LET overlap_rel == RelativeTo(OverlapRange(delete1_range, delete2_range),
                                           delete2_range.start)
             IN  <<Min(applied_start, current_start),
                   Before(current_delete, overlap_rel.start)
                       \o After(current_delete, RangeEnd(overlap_rel))>>

\* string_diff.extend_delete
ExtendDelete(deletion, at_pos, string) ==
    Before(deletion, at_pos) \o string \o After(deletion, at_pos)

\* StringChangeTypes.InsertChange / DeleteChange: text is the insertion or the
\* deletion; id is the change's id, adjusted after sync has rewritten it
InsertChange(version, position, insertion, id) ==
    [kind |-> "insert", topic_version |-> version, position |-> position,
     text |-> insertion, id |-> id, adjusted |-> FALSE]
DeleteChange(version, position, deletion, id) ==
    [kind |-> "delete", topic_version |-> version, position |-> position,
     text |-> deletion, id |-> id, adjusted |-> FALSE]

\* an insert that moves to the start of the range that swallowed its
\* position and keeps its text
C33_InsertKept(self, change) ==
    IF change.kind = "insert"
    THEN IF change.position < self.position
         THEN [self EXCEPT !.position = @ + Len(change.text)]
         ELSE self
    ELSE IF change.position < self.position
         THEN [self EXCEPT !.position =
                   Max(change.position, @ - Len(change.text))]
         ELSE self

\* InsertChange._adjust
InsertAdjust(self, change) ==
    IF change.kind = "insert"
    THEN IF change.position < self.position
         THEN [self EXCEPT !.position = @ + Len(change.text)]
         ELSE self
    ELSE IF change.position < self.position
         THEN IF change.position + Len(change.text) <= self.position
              THEN [self EXCEPT !.position =
                        @ - Min(Len(change.text), self.position - change.position)]
              ELSE [self EXCEPT !.position = change.position, !.text = <<>>]
         ELSE self

\* DeleteChange._adjust
DeleteAdjust(self, change) ==
    IF change.kind = "delete"
    THEN LET r == AdjustDelete(change.position, change.text, self.position, self.text)
         IN  [self EXCEPT !.position = r[1], !.text = r[2]]
    ELSE IF change.position <= self.position
         THEN [self EXCEPT !.position = @ + Len(change.text)]
         ELSE IF change.position < self.position + Len(self.text)
              THEN [self EXCEPT !.text = ExtendDelete(@, change.position - self.position,
                                                      change.text)]
              ELSE self

\* StringChangeTypes.SetChange: text is the new value
StringSetChange(value, id) ==
    [kind |-> "set", topic_version |-> <<0, FALSE>>, position |-> 0,
     text |-> value, id |-> id, adjusted |-> FALSE]

\* sync_topic_version meeting a SetChange: the cursor goes to the beginning,
\* and a delete deletes nothing
AfterSet(self) ==
    IF self.kind = "insert" THEN [self EXCEPT !.position = 0]
    ELSE [self EXCEPT !.position = 0, !.text = <<>>]

\* a loop that steps over the SetChanges
RECURSIVE C37_SkipSet(_, _)
C37_SkipSet(self, changes) ==
    IF changes = <<>> THEN self
    ELSE C37_SkipSet(IF Head(changes).kind = "set" THEN self
                     ELSE IF self.kind = "insert" THEN InsertAdjust(self, Head(changes))
                     ELSE DeleteAdjust(self, Head(changes)),
                     Tail(changes))

\* the loop of sync_topic_version over changes_from(topic_version)
RECURSIVE AdjustAll(_, _)
AdjustAll(self, changes) ==
    IF changes = <<>> THEN self
    ELSE AdjustAll(IF Head(changes).kind = "set" THEN AfterSet(self)
                   ELSE IF self.kind = "insert" THEN InsertAdjust(self, Head(changes))
                   ELSE DeleteAdjust(self, Head(changes)),
                   Tail(changes))

\* StringTopic.__init__
InitVersion == <<0, FALSE>>
NewStringTopic(init_value) ==
    [value |-> init_value, version |-> InitVersion, versions |-> <<InitVersion>>,
     changes |-> <<>>]

\* StringTopic.changes_from: changes[version_to_index[version] + 1:], KeyError
\* when the version is not recorded
KnownVersion(topic, version) ==
    \E i \in DOMAIN topic.versions : topic.versions[i] = version
\* a changes_from that returns the latest change only
C13_FromLatest(topic, version) ==
    SubSeq(topic.changes, Len(topic.changes), Len(topic.changes))
ChangesFrom(topic, version) ==
    LET i == CHOOSE j \in DOMAIN topic.versions : topic.versions[j] = version
    IN  SubSeq(topic.changes, i, Len(topic.changes))

\* InsertChange.sync_topic_version / DeleteChange.sync_topic_version
SyncTopicVersion(self, current_version, topic) ==
    IF self.kind = "set" THEN Valid(self)
    ELSE IF self.topic_version = current_version THEN Valid(self)
    ELSE IF ~KnownVersion(topic, self.topic_version) THEN Invalid
    ELSE Valid([AdjustAll(self, ChangesFrom(topic, self.topic_version))
                   EXCEPT !.topic_version = current_version, !.adjusted = TRUE])

\* Change.exchange_topic_version: the change is brought to the topic's
\* version, and the topic's next version is the id of the change
ExchangeTopicVersion(self, current_version, topic) ==
    LET r == SyncTopicVersion(self, current_version, topic)
    IN  IF r.ok THEN [ok |-> TRUE, change |-> r.value,
                      version |-> <<r.value.id, r.value.adjusted>>]
        ELSE [ok |-> FALSE, change |-> self, version |-> current_version]

\* InsertChange.apply / DeleteChange.apply / SetChange.apply
StringApply(change, old_value) ==
    IF change.kind = "set" THEN Valid(change.text)
    ELSE IF change.kind = "insert"
    THEN StringInsert(old_value, change.position, change.text)
    ELSE StringDelete(old_value, change.position, change.text)

\* Topic.apply_change on a StringTopic (StringTopic._validate_change_and_get_result):
\* the topic afterwards, or the topic untouched and failed when it raises
StringTopicApply(topic, change) ==
    LET x == ExchangeTopicVersion(change, topic.version, topic)
        r == IF x.ok THEN StringApply(x.change, topic.value) ELSE Invalid
    IN  IF ~r.ok THEN [ok |-> FALSE, topic |-> topic]
        ELSE [ok |-> TRUE,
              topic |-> [value |-> r.value, version |-> x.version,
                         versions |-> Append(topic.versions, x.version),
                         changes |-> Append(topic.changes, x.change)]]

\* the strings of length at most n over the characters A
StringsOver(A, n) == UNION {[1 .. k -> A] : k \in 0 .. n}

\* the changes a client can compose against the string base at the initial version
ChangesOn(base, id) ==
    {InsertChange(InitVersion, p, s, id) :
        p \in 0 .. Len(base), s \in StringsOver({"x", "y"}, MaxIns)}
    \cup UNION {{DeleteChange(InitVersion, p, SubSeq(base, p + 1, p + n), id) :
                    n \in 0 .. Len(base) - p} : p \in 0 .. Len(base)}

\* the topics of a run of _test_2_change_order: topic 1 is given change1 then
\* change2, topic 2 change2 then change1
NewOT(base, c1, c2) ==
    [base |-> base, c |-> <<c1, c2>>,
     topic |-> <<NewStringTopic(base), NewStringTopic(base)>>,
     step |-> <<0, 0>>, failed |-> <<FALSE, FALSE>>]

NoStrings == NewOT(<<>>, InsertChange(InitVersion, 0, <<>>, 1), InsertChange(InitVersion, 0, <<>>, 2))

\* ClientManager.__init__
NewNet ==
    [subs |-> [t \in Topics |-> {}], queue |-> <<>>, handled |-> 0,
     \* log: the last action message handled
     last |-> [sender |-> 0, failed |-> FALSE, pre |-> [t \in Topics |-> 0],
               post |-> [t \in Topics |-> 0],
               subs |-> [t \in Topics |-> {}], msgs |-> <<>>]]

\* the parts of the program a specification leaves out of its run
NoValue == [kind |-> "none"]
NoClients == [kind |-> "none"]
NoThreads == [kind |-> "none"]
NoBuffer == [kind |-> "none"]

\* StateMachine() with the default transition_callback
Init ==
    /\ cfg \in Configs
    /\ sm = NewMachine
    /\ history = FALSE
    /\ trans = <<>>
    /\ net = NewNet
    /\ ot = NoStrings
    /\ topicval = NoValue /\ clients = NoClients /\ threads = NoThreads /\ ub = NoBuffer

\* StateMachine(transition_callback = history.add_transition)
InitHistory ==
    /\ cfg \in Configs
    /\ sm = NewMachine
    /\ history = TRUE
    /\ trans = <<>>
    /\ net = NewNet
    /\ ot = NoStrings
    /\ topicval = NoValue /\ clients = NoClients /\ threads = NoThreads /\ ub = NoBuffer

\* a caller may start a new run
CanStart == ~sm.rec /\ Len(sm.lists[sm.tref]) <= MaxStale

\* with machine.record(action_source = 1, action_id = "act"):
Record ==
    /\ CanStart
    /\ sm' = RecordEnter(Fresh(sm, [kind |-> "record", idx |-> 0]),
                         RecordArgs(1, "act", TRUE, "FORWARDING"))
    /\ UNCHANGED <<cfg, history, trans, net, ot, topicval, clients, threads, ub>>

\* a statement of the body ended: either the scope goes on, or the exception
\* leaves the with block and record()'s except and finally run
AfterStatement(m0, kind, allow, catch) ==
    LET m == [m0 EXCEPT !.last = [kind |-> kind, allow |-> allow, exc |-> m0.exc,
                                  n |-> m0.steps]]
    IN  IF m.exc = None THEN sm' = m /\ UNCHANGED trans
        ELSE IF catch THEN sm' = Caught(sm, m) /\ UNCHANGED trans
        ELSE Ended(RecordExit(m))

\* t.set(v) in the body, inside try/except when catch
BodySet(t, v, catch) ==
    /\ sm.rec /\ sm.steps < MaxBody
    /\ v # sm.val[t]
    /\ AfterStatement(TopicSet([sm EXCEPT !.steps = @ + 1], t, v), "set", FALSE, catch)
    /\ UNCHANGED <<cfg, history, net, ot, topicval, clients, threads, ub>>

\* raise in the body
BodyRaise ==
    /\ sm.rec
    /\ AfterStatement([sm EXCEPT !.exc = "BodyError"], "raise", FALSE, FALSE)
    /\ UNCHANGED <<cfg, history, net, ot, topicval, clients, threads, ub>>

\* with machine.record(allow_reentry = allow): a.set(v), in the body
BodyRecord(allow, v, catch) ==
    /\ sm.rec /\ sm.steps < MaxBody
    /\ v # sm.val["a"]
    /\ LET m1 == RecordNested([sm EXCEPT !.steps = @ + 1], allow)
           m2 == IF m1.exc = None THEN TopicSet(m1, "a", v) ELSE m1
       IN  AfterStatement(m2, "record", allow, catch)
    /\ UNCHANGED <<cfg, history, net, ot, topicval, clients, threads, ub>>

\* EventTopic.emit -> apply_change, lines 203-218: the change is appended to
\* the changes list; the topic is not stateful, so no node is made, and its
\* hubs have no listener
Emit(m) ==
    [m EXCEPT !.cl = AppendChange(@, [EmitChange EXCEPT !.oid = m.nobj + 1]),
              !.nobj = @ + 1, !.emits = Append(@, m.nobj + 1)]

\* e.emit() in the body
BodyEmit ==
    /\ sm.rec /\ sm.steps < MaxBody
    /\ AfterStatement(Emit([sm EXCEPT !.steps = @ + 1]), "emit", FALSE, FALSE)
    /\ UNCHANGED <<cfg, history, net, ot, topicval, clients, threads, ub>>

\* the with block ends without an exception
EndRecord ==
    /\ sm.rec
    /\ Ended(RecordExit(sm))
    /\ UNCHANGED <<cfg, history, net, ot, topicval, clients, threads, ub>>

\* t.set(v) outside any scope (apply_change opens its own)
SetOutside(t, v) ==
    /\ CanStart
    /\ v # sm.val[t]
    /\ Ended(TopicSet(Fresh(sm, [kind |-> "set", idx |-> 0]), t, v))
    /\ UNCHANGED <<cfg, history, net, ot, topicval, clients, threads, ub>>

\* machine.undo(trans[i])
Undo(i) ==
    /\ CanStart
    /\ LET chs == trans[i].changes
           m0 == RecordEnter(Fresh(sm, [kind |-> "undo", idx |-> i]),
                             RecordArgs(0, "", FALSE, "UNDOING"))
       IN  Ended(RecordExit(UndoAll(m0, chs, Len(chs))))
    /\ UNCHANGED <<cfg, history, net, ot, topicval, clients, threads, ub>>

\* redo is over: tr is the transitions held, their changes as redo left them
RedoEnded(tr, m1) ==
    /\ sm' = Finish(m1)
    /\ trans' = LastN(tr \o Emitted(m1.done, 1), MaxHist)

\* machine.redo(trans[i])
Redo(i) ==
    /\ CanStart
    /\ LET chs == trans[i].changes
           m0 == RecordEnter(Fresh(sm, [kind |-> "redo", idx |-> i]),
                             RecordArgs(0, "", FALSE, "REDOING"))
       IN  RedoEnded([trans EXCEPT ![i].changes = Redone(m0, chs, 1, <<>>)],
                     RecordExit(RedoAll(m0, chs, 1)))
    /\ UNCHANGED <<cfg, history, net, ot, topicval, clients, threads, ub>>

Next ==
    \/ Record
    \/ \E t \in Topics, v \in Values, catch \in BOOLEAN : BodySet(t, v, catch)
    \/ BodyRaise
    \/ \E allow \in BOOLEAN, v \in Values, catch \in BOOLEAN : BodyRecord(allow, v, catch)
    \/ EndRecord
    \/ \E t \in Topics, v \in Values : SetOutside(t, v)

Spec == Init /\ [][Next]_vars

\* the machine with an event topic
NextEvents ==
    \/ Next
    \/ BodyEmit

SpecEvents == Init /\ [][NextEvents]_vars

NextHistory ==
    \/ \E t \in Topics, v \in Values : SetOutside(t, v)
    \/ \E i \in 1 .. Len(trans) : Undo(i)
    \/ \E i \in 1 .. Len(trans) : Redo(i)

SpecHistory == InitHistory /\ [][NextHistory]_vars

\* --------------------------------------------------- callbacks that raise
\* StateMachine(changes_callback = ..., transition_callback = ...), one of the
\* two raising whenever it is called
InitCallbacks ==
    /\ cfg \in Configs
    /\ \E f \in {"changes", "transition"} : sm = [NewMachine EXCEPT !.cbfail = f]
    /\ history = FALSE
    /\ trans = <<>>
    /\ net = NewNet
    /\ ot = NoStrings
    /\ topicval = NoValue /\ clients = NoClients /\ threads = NoThreads /\ ub = NoBuffer

\* the caller has the exception of a scope that is still marked as recording
StillRecording == sm.rec /\ sm.raised # None

\* with machine.record(): ... once more, after a scope has exited
RecordAgain ==
    /\ sm.done # <<>> /\ (StillRecording \/ ~sm.rec)
    /\ sm.last.kind # "again"
    /\ sm' = [sm EXCEPT !.last = [kind |-> "again", allow |-> FALSE,
                                  exc |-> RecordNested(sm, FALSE).exc, n |-> 0]]
    /\ UNCHANGED <<cfg, history, trans, net, ot, topicval, clients, threads, ub>>

NextCallbacks ==
    \/ ~StillRecording /\ sm.last.kind # "again" /\ Next
    \/ RecordAgain

SpecCallbacks == InitCallbacks /\ [][NextCallbacks]_vars

\* ---------------------------------------------- tasks offered in any phase
\* a machine with a history whose listeners offer tasks
InitTasks ==
    /\ cfg \in {CfgManualAfter, CfgAfter}
    /\ sm = NewMachine
    /\ history = TRUE
    /\ trans = <<>>
    /\ net = NewNet
    /\ ot = NoStrings
    /\ topicval = NoValue /\ clients = NoClients /\ threads = NoThreads /\ ub = NoBuffer

\* machine.do_after_transition(lambda: t.set(v)) called outside any scope
OfferOutside(t, v) ==
    /\ CanStart
    /\ v # sm.val[t]
    /\ LET m0 == Fresh(sm, [kind |-> "offer", idx |-> 0])
       IN  Ended(DoAfterTransition(m0, [topic |-> t, value |-> v, tid |-> m0.ntask + 1]))
    /\ UNCHANGED <<cfg, history, net, ot, topicval, clients, threads, ub>>

NextTasks ==
    \/ \E t \in Topics, v \in Values : SetOutside(t, v)
    \/ \E t \in Topics, v \in Values : OfferOutside(t, v)
    \/ \E i \in 1 .. Len(trans) : Undo(i)
    \/ \E i \in 1 .. Len(trans) : Redo(i)

SpecTasks == InitTasks /\ [][NextTasks]_vars

\* ------------------------------------------------------------- the server
Clients == 1 .. MaxClients

\* a command of an action message: a serialized SetChange, or one that
\* Change.deserialize cannot read
Commands ==
    [bad : {FALSE}, topic : Topics, value : Values]
        \cup {[bad |-> TRUE, topic |-> "a", value |-> 0]}

\* SetChange.serialize
Serialize(ch) == [topic |-> ch.topic, value |-> ch.value, old |-> ch.old]

\* send_update, lines 106-108: the serialized changes on topics client k subscribes to
RECURSIVE MessagesFor(_, _, _)
MessagesFor(subs, cl, k) ==
    IF cl = <<>> THEN <<>>
    ELSE (IF k \in subs[Head(cl).topic] THEN <<Serialize(Head(cl))>> ELSE <<>>)
            \o MessagesFor(subs, Tail(cl), k)

\* a broadcast that sends nothing
C3_SendNone(subs, cl, aid, k) == <<>>

\* ClientManager.send_update: one "update" message per client that has changes
RECURSIVE SendUpdate(_, _, _, _)
SendUpdate(subs, cl, aid, k) ==
    IF k > MaxClients THEN <<>>
    ELSE LET ms == MessagesFor(subs, cl, k)
         IN  (IF ms = <<>> THEN <<>>
              ELSE <<[to |-> k, type |-> "update", changes |-> ms, aid |-> aid]>>)
                 \o SendUpdate(subs, cl, aid, k + 1)

\* ChatroomServer._on_changes_made, once per scope that called changes_callback
RECURSIVE OnChangesMade(_, _, _)
OnChangesMade(subs, done, i) ==
    IF i > Len(done) THEN <<>>
    ELSE (IF done[i].cb THEN SendUpdate(subs, done[i].cl, done[i].args.aid, 1) ELSE <<>>)
            \o OnChangesMade(subs, done, i + 1)

\* the loop of _handle_action: deserialize and apply each command
RECURSIVE ApplyCommands(_, _, _)
ApplyCommands(m, cmds, i) ==
    IF i > Len(cmds) \/ m.exc # None THEN m
    ELSE IF cmds[i].bad THEN [m EXCEPT !.exc = "KeyError"]
    ELSE ApplyCommands(ApplyChange(m, NewSetChange(cmds[i].topic, cmds[i].value)), cmds, i + 1)

\* the machine between two handlers: the run's log is dropped
Settled(m) ==
    [NewMachine EXCEPT !.val = m.val, !.lists = << m.lists[m.tref] >>,
                       !.op = [kind |-> "action", idx |-> 0, before |-> m.val]]

NumSubs == Cardinality({p \in Topics \X Clients : p[2] \in net.subs[p[1]]})

\* ClientManager._handle_subscribe
Subscribe(k, t) ==
    /\ ~sm.rec /\ Len(net.queue) <= MaxPending
    /\ k \notin net.subs[t] /\ NumSubs < MaxSubs
    /\ net' = [net EXCEPT !.subs[t] = @ \cup {k},
                          !.queue = Append(@, [to |-> k, type |-> "init",
                                               changes |-> <<[topic |-> t, value |-> sm.val[t],
                                                              old |-> None]>>,
                                               aid |-> ""])]
    /\ UNCHANGED <<cfg, sm, history, trans, ot, topicval, clients, threads, ub>>

\* ClientManager._handle_unsubscribe
Unsubscribe(k, t) ==
    /\ k \in net.subs[t]
    /\ net' = [net EXCEPT !.subs[t] = @ \ {k}]
    /\ UNCHANGED <<cfg, sm, history, trans, ot, topicval, clients, threads, ub>>

\* ClientManager.run: the next queued message goes out
SendOne ==
    /\ net.queue # <<>>
    /\ net' = [net EXCEPT !.queue = Tail(@)]
    /\ UNCHANGED <<cfg, sm, history, trans, ot, topicval, clients, threads, ub>>

\* _handle_action is over: m1 is the machine after the record scope; what
\* changes_callback sent is queued, then the reject when the scope raised
Handled(k, m1) ==
    LET msgs == OnChangesMade(net.subs, m1.done, 1)
                  \o (IF m1.exc # None
                      THEN <<[to |-> k, type |-> "reject", changes |-> <<>>, aid |-> ""]>>
                      ELSE <<>>)
    IN  /\ sm' = Settled(m1)
        /\ net' = [net EXCEPT !.queue = @ \o msgs, !.handled = @ + 1,
                              !.last = [sender |-> k, failed |-> m1.exc # None,
                                        pre |-> sm.val, post |-> m1.val,
                                        subs |-> net.subs, msgs |-> msgs]]

\* ChatroomServer._handle_action(sender, commands, action_id = "act")
HandleAction(k, cmds) ==
    /\ CanStart /\ Len(net.queue) <= MaxPending /\ net.handled < MaxActions
    /\ LET m0 == RecordEnter(Fresh(sm, [kind |-> "action", idx |-> 0]),
                             RecordArgs(k, "act", TRUE, "FORWARDING"))
       IN  Handled(k, RecordExit(ApplyCommands(m0, cmds, 1)))
    /\ UNCHANGED <<cfg, history, trans, ot, topicval, clients, threads, ub>>

NextServer ==
    \/ \E k \in Clients, t \in Topics : Subscribe(k, t)
    \/ \E k \in Clients, t \in Topics : Unsubscribe(k, t)
    \/ SendOne
    \/ \E k \in Clients, n \in 1 .. MaxBody : \E cmds \in [1 .. n -> Commands] :
          HandleAction(k, cmds)

SpecServer == Init /\ [][NextServer]_vars

\* ---------------------------------------------------- string topics, in use
\* two concurrent changes composed against the same base string and version
InitOT ==
    /\ cfg = CfgChain
    /\ sm = NewMachine
    /\ history = FALSE
    /\ trans = <<>>
    /\ net = NewNet
    /\ \E base \in StringsOver({"a", "b"}, MaxStr) :
          \E c1 \in ChangesOn(base, 1), c2 \in ChangesOn(base, 2) :
              /\ StringApply(c1, base).ok /\ StringApply(c2, base).ok
              /\ ot = NewOT(base, c1, c2)
    /\ topicval = NoValue /\ clients = NoClients /\ threads = NoThreads /\ ub = NoBuffer

\* topic.apply_change(change): topic k takes its next change (topic 1 takes
\* change1 first, topic 2 change2 first)
TopicApplyChange(k) ==
    /\ ot.step[k] < 2
    /\ LET first == IF k = 1 THEN 1 ELSE 2
           which == IF ot.step[k] = 0 THEN first ELSE 3 - first
           r == StringTopicApply(ot.topic[k], ot.c[which])
       IN  ot' = [ot EXCEPT !.topic[k] = r.topic, !.step[k] = @ + 1,
                            !.failed[k] = @ \/ ~r.ok]
    /\ UNCHANGED <<cfg, sm, history, trans, net, topicval, clients, threads, ub>>

NextOT == \E k \in {1, 2} : TopicApplyChange(k)

SpecOT == InitOT /\ [][NextOT]_vars

\* ------------------------------------------------------ typed changes
\* items an initial list or set value holds
MaxList == 1
\* positions of list changes are -(MaxPos + 1) .. MaxPos
MaxPos == 3
\* changes of one topic accepted in one behaviour
MaxLog == 3
\* ids the IdGenerator has issued when a behaviour starts
MaxIssued == 1

\* the items of lists and sets, and the keys of dicts, whose values are "p",
\* "q" or Absent (the key is not in the dict)
Items == {"x", "y"}
Keys == {"j", "k"}
Absent == "absent"

\* a Change object: the attributes of its class that the kind uses; old is
\* <<>> for old_value None and <<v>> for the value v
BlankChange ==
    [kind |-> "set", position |-> 0, item |-> "x", key |-> "j",
     value |-> <<>>, old |-> <<>>, id |-> [by |-> "client", n |-> 1]]

\* IdGenerator.__call__: '0_' + str(self._id) after self._id += 1
GenerateId(issued) == [by |-> "server", n |-> issued + 1]

\* the outcome of change.apply(old_value): the value returned and the change
\* object afterwards, or the exception raised with the value as it was
Applied(value, change, issued) ==
    [ok |-> TRUE, value |-> value, change |-> change, error |-> None, issued |-> issued]
Raised(old_value, change, error, issued) ==
    [ok |-> FALSE, value |-> old_value, change |-> change, error |-> error, issued |-> issued]

\* a SetChange that never takes a new id
C12_KeepId(self, old_value, issued) ==
    Applied(self.value, [self EXCEPT !.old = <<old_value>>], issued)

\* SetChange.apply
SetChangeApply(self, old_value, issued) ==
    IF self.old # <<old_value>>
    THEN Applied(self.value, [self EXCEPT !.id = GenerateId(issued), !.old = <<old_value>>],
                 issued + 1)
    ELSE Applied(self.value, [self EXCEPT !.old = <<old_value>>], issued)

\* ListChangeTypes.InsertChange.apply and PopChange.apply. list.insert counts a
\* negative index from the end and clamps the index to the list; list.pop
\* counts a negative index from the end and raises IndexError outside the list
ListApply(self, old_value, issued) ==
    LET n == Len(old_value)
    IN  IF self.kind = "list_insert"
        THEN LET position == IF self.position < 0 THEN n + self.position + 1
                             ELSE self.position
                 at == Max(0, Min(n, IF position < 0 THEN n + position ELSE position))
             IN  Applied(SubSeq(old_value, 1, at) \o <<self.item>>
                             \o SubSeq(old_value, at + 1, n),
                         [self EXCEPT !.position = position], issued)
        ELSE LET position == IF self.position < 0 THEN n + self.position
                             ELSE self.position
                 at == IF position < 0 THEN n + position ELSE position
             IN  IF at \notin 0 .. n - 1 THEN Raised(old_value, self, "IndexError", issued)
                 ELSE Applied(SubSeq(old_value, 1, at) \o SubSeq(old_value, at + 2, n),
                              [self EXCEPT !.position = position,
                                           !.item = old_value[at + 1]], issued)

\* an append that does not look at the value
C14_AppendAny(self, old_value, issued) ==
    IF self.kind = "append" THEN Applied(Append(old_value, self.item), self, issued)
    ELSE IF self.item \notin {old_value[i] : i \in DOMAIN old_value}
    THEN Raised(old_value, self, "InvalidChangeError", issued)
    ELSE Applied(ListRemove(old_value, self.item), self, issued)

\* SetChangeTypes.AppendChange.apply and RemoveChange.apply
SetTopicApply(self, old_value, issued) ==
    IF self.kind = "append"
    THEN IF self.item \in {old_value[i] : i \in DOMAIN old_value}
         THEN Raised(old_value, self, "InvalidChangeError", issued)
         ELSE Applied(Append(old_value, self.item), self, issued)
    ELSE IF self.item \notin {old_value[i] : i \in DOMAIN old_value}
    THEN Raised(old_value, self, "InvalidChangeError", issued)
    ELSE Applied(ListRemove(old_value, self.item), self, issued)

\* DictChangeTypes.AddChange.apply, PopChange.apply and ChangeValueChange.apply
DictApply(self, old_dict, issued) ==
    IF self.kind = "add"
    THEN IF old_dict[self.key] # Absent
         THEN Raised(old_dict, self, "InvalidChangeError", issued)
         ELSE Applied([old_dict EXCEPT ![self.key] = self.value], self, issued)
    ELSE IF old_dict[self.key] = Absent
    THEN Raised(old_dict, self, "InvalidChangeError", issued)
    ELSE IF self.kind = "pop"
    THEN Applied([old_dict EXCEPT ![self.key] = Absent],
                 [self EXCEPT !.value = old_dict[self.key]], issued)
    ELSE IF self.old # <<old_dict[self.key]>>
    THEN Applied([old_dict EXCEPT ![self.key] = self.value],
                 [self EXCEPT !.id = GenerateId(issued), !.old = <<old_dict[self.key]>>],
                 issued + 1)
    ELSE Applied([old_dict EXCEPT ![self.key] = self.value], self, issued)

\* change.apply(old_value), by the class of the change
ChangeApply(self, old_value, issued) ==
    CASE self.kind = "set" -> SetChangeApply(self, old_value, issued)
      [] self.kind \in {"list_insert", "list_pop"} -> ListApply(self, old_value, issued)
      [] self.kind \in {"append", "remove"} -> SetTopicApply(self, old_value, issued)
      [] self.kind \in {"add", "pop", "change_value"} -> DictApply(self, old_value, issued)
      \* IntChangeTypes.AddChange.apply
      [] self.kind = "int_add" -> Applied(old_value + self.value, self, issued)

\* change.inverse(): a new object of the opposite class, which takes the id
\* Change.__init__ generates
ChangeInverse(self, id) ==
    CASE self.kind \in {"set", "change_value"} ->
            [self EXCEPT !.value = self.old[1], !.old = <<self.value>>, !.id = id]
      [] self.kind = "list_insert" -> [self EXCEPT !.kind = "list_pop", !.id = id]
      [] self.kind = "list_pop" -> [self EXCEPT !.kind = "list_insert", !.id = id]
      [] self.kind = "append" -> [self EXCEPT !.kind = "remove", !.id = id]
      [] self.kind = "remove" -> [self EXCEPT !.kind = "append", !.id = id]
      [] self.kind = "add" -> [self EXCEPT !.kind = "pop", !.id = id]
      [] self.kind = "pop" -> [self EXCEPT !.kind = "add", !.id = id]
      [] self.kind = "int_add" -> [self EXCEPT !.value = 0 - self.value, !.id = id]

\* the values a topic of a type takes at the start and in set changes
TypeValues(type) ==
    CASE type \in {"list", "set"} -> StringsOver(Items, MaxList)
      [] type = "dict" -> [Keys -> {"p", Absent}]
      [] type = "int" -> Values

\* the changes that can be submitted to a topic of a type, with the id of a
\* client or one the generator issued; list positions are -(MaxPos + 1) .. MaxPos
ChangesFor(type, issued) ==
    LET SubmittedIds == {[by |-> "client", n |-> 1]}
                            \cup {[by |-> "server", n |-> k] : k \in 1 .. issued}
        Positions == (0 - (MaxPos + 1)) .. MaxPos
    IN
    {[BlankChange EXCEPT !.value = v, !.old = o, !.id = id] :
        v \in TypeValues(type), o \in {<<>>} \cup {<<w>> : w \in TypeValues(type)},
        id \in SubmittedIds}
    \cup
    CASE type = "list" ->
            {[BlankChange EXCEPT !.kind = k, !.item = i, !.position = p] :
                k \in {"list_insert", "list_pop"}, i \in Items, p \in Positions}
      [] type = "set" ->
            {[BlankChange EXCEPT !.kind = k, !.item = i] :
                k \in {"append", "remove"}, i \in Items}
      [] type = "dict" ->
            {[BlankChange EXCEPT !.kind = k, !.key = key, !.value = "p"] :
                k \in {"add", "pop"}, key \in Keys}
            \cup {[BlankChange EXCEPT !.kind = "change_value", !.key = key,
                                      !.value = "q", !.old = o, !.id = id] :
                     key \in Keys, o \in {<<>>, <<"p">>, <<"q">>},
                     id \in SubmittedIds}
      [] type = "int" ->
            {[BlankChange EXCEPT !.kind = "int_add", !.value = v] : v \in {0 - 1, 1}}

\* a topic of some type with its initial value. log: what the changes accepted
\* so far were; last: the last change submitted, as submitted and as apply left
\* it, and the value it met; undone: the outcome of applying its inverse
InitChanges ==
    /\ cfg = CfgChain
    /\ sm = NewMachine
    /\ history = FALSE
    /\ trans = <<>>
    /\ net = NewNet
    /\ ot = NoStrings
    /\ clients = NoClients /\ threads = NoThreads /\ ub = NoBuffer
    /\ \E type \in {"list", "set", "dict", "int"} : \E value \in TypeValues(type) :
          topicval = [type |-> type, value |-> value, issued |-> MaxIssued,
                      log |-> <<>>, last |-> <<>>, undone |-> <<>>]

\* what the log keeps of an accepted change
Entry(change) ==
    [kind |-> change.kind, item |-> change.item, key |-> change.key,
     value |-> change.value]

\* new_value = change.apply(self._value) with a change of the topic's type: the
\* topic after apply returned or raised
Submit(change) ==
    /\ Len(topicval.log) < MaxLog
    /\ LET r == ChangeApply(change, topicval.value, topicval.issued)
       IN  /\ topicval.type = "int" => r.value \in (0 - 1) .. (MaxVal + 1)
           /\ topicval' = [topicval EXCEPT
                 !.value = r.value, !.issued = r.issued,
                 !.log = IF r.ok THEN Append(@, Entry(r.change)) ELSE @,
                 !.last = <<[submitted |-> change, applied |-> r.change,
                             before |-> topicval.value, ok |-> r.ok, error |-> r.error]>>,
                 !.undone = <<>>]
    /\ UNCHANGED <<cfg, sm, history, trans, net, ot, clients, threads, ub>>

\* change.inverse().apply(new_value), right after change.apply returned it
Revert ==
    /\ Len(topicval.log) < MaxLog
    /\ topicval.last # <<>> /\ topicval.last[1].ok /\ topicval.undone = <<>>
    /\ LET r == ChangeApply(ChangeInverse(topicval.last[1].applied,
                                          GenerateId(topicval.issued)),
                            topicval.value, topicval.issued + 1)
       IN  topicval' = [topicval EXCEPT
               !.value = r.value, !.issued = r.issued,
               !.log = IF r.ok THEN Append(@, Entry(r.change)) ELSE @,
               !.undone = <<[ok |-> r.ok, value |-> r.value, error |-> r.error]>>]
    /\ UNCHANGED <<cfg, sm, history, trans, net, ot, clients, threads, ub>>

NextChanges ==
    \/ \E change \in ChangesFor(topicval.type, topicval.issued) : Submit(change)
    \/ Revert

SpecChanges == InitChanges /\ [][NextChanges]_vars

\* ------------------------------------------- string topics, stale changes
\* changes submitted to one StringTopic in one behaviour
MaxSync == 3

\* a version no topic records
UnknownVersion == <<0, TRUE>>

\* one StringTopic and what its clients hold: seen[i] is the string the topic
\* had at versions[i], which a client at that version composes its change on;
\* last is the last change submitted with the topic before it
InitSync ==
    /\ cfg = CfgChain
    /\ sm = NewMachine
    /\ history = FALSE
    /\ trans = <<>>
    /\ net = NewNet
    /\ topicval = NoValue /\ clients = NoClients /\ threads = NoThreads /\ ub = NoBuffer
    /\ \E base \in StringsOver({"a", "b"}, MaxStr - 1) :
          ot = [topic |-> NewStringTopic(base), seen |-> <<base>>, last |-> <<>>, n |-> 0]

\* the topic after apply_change returned or raised
Synced(change, r) ==
    ot' = [topic |-> r.topic,
           seen |-> IF r.ok THEN Append(ot.seen, r.topic.value) ELSE ot.seen,
           last |-> <<[submitted |-> change, pre |-> ot.topic, ok |-> r.ok]>>,
           n |-> ot.n + 1]

\* topic.apply_change(change), the change composed by a client on the string of
\* a version the topic recorded, or carrying a version it never recorded
SubmitString ==
    /\ ot.n < MaxSync
    /\ \/ \E i \in DOMAIN ot.topic.versions :
             \E c \in ChangesOn(ot.seen[i], ot.n + 1) :
                 Synced([c EXCEPT !.topic_version = ot.topic.versions[i]],
                        StringTopicApply(ot.topic,
                                         [c EXCEPT !.topic_version = ot.topic.versions[i]]))
       \/ \E c \in ChangesOn(ot.topic.value, ot.n + 1) :
             Synced([c EXCEPT !.topic_version = UnknownVersion],
                    StringTopicApply(ot.topic, [c EXCEPT !.topic_version = UnknownVersion]))
    /\ UNCHANGED <<cfg, sm, history, trans, net, topicval, clients, threads, ub>>

NextSync == SubmitString

SpecSync == InitSync /\ [][NextSync]_vars

\* topic.apply_change(change) with a SetChange a client composed
SubmitSet ==
    /\ ot.n < MaxSync
    /\ \E v \in StringsOver({"a", "b"}, MaxStr - 1) :
          Synced(StringSetChange(v, ot.n + 1),
                 StringTopicApply(ot.topic, StringSetChange(v, ot.n + 1)))
    /\ UNCHANGED <<cfg, sm, history, trans, net, topicval, clients, threads, ub>>

NextSet == SubmitString \/ SubmitSet

SpecSet == InitSync /\ [][NextSet]_vars

\* ------------------------------------------------------- clients' mirrors
\* changes the clients propose in one behaviour
MaxProposals == 3
\* changes the server itself makes to the non-stateful topic in one behaviour
MaxServerSets == 1
\* topics one client registers
MaxRegs == 1

\* the value the validator of topic "a" rejects
BadValue == MaxVal

\* the ids of a client's changes are its own (uuid4), none of them the server's
ClientName == [k \in Clients |-> IF k = 1 THEN "client1" ELSE IF k = 2 THEN "client2" ELSE "client3"]

\* A SetChange on its way between a client and the server. no (the place of the
\* change among those the server committed, 0 before) and by (the client that
\* proposed it, 0 for the server) are not part of the message: they name the
\* change in the properties.
MirrorChange(t, v, old, id, by) ==
    [topic |-> t, value |-> v, old |-> old, id |-> id, no |-> 0, by |-> by]

\* the client's Topic objects: value is what is displayed, path the preview
\* path. Kept for the properties: confirmed, the value of the last change of "a"
\* the server sent; got, for each topic the number of the last change the
\* server sent (none before the init message); last, what the client did with
\* the last change it received; read, which flips with every message handled
NewMirror ==
    [reg |-> {}, value |-> [t \in {"a", "n"} |-> 0], path |-> <<>>, made |-> 0,
     confirmed |-> 0, got |-> [t \in {"a", "n"} |-> <<>>], last |-> <<>>, read |-> 0]

\* what the client did with a change it received
Did(mirror, what, type, change) ==
    [mirror EXCEPT
        !.last = <<[did |-> what, type |-> type, change |-> change,
                    got |-> mirror.got[change.topic]]>>,
        !.got[change.topic] = IF type = "reject" THEN @ ELSE <<change.no>>]

\* the server with topics "a" (stateful, validated) and "n" (non-stateful), the
\* ClientManager's subscriptions and sending queue, the UpdateBuffer, the
\* messages of each client that the server has not read yet (up), and the clients
InitClients ==
    /\ cfg = CfgChain
    /\ sm = NewMachine
    /\ history = FALSE
    /\ trans = <<>>
    /\ net = NewNet
    /\ ot = NoStrings
    /\ topicval = NoValue /\ threads = NoThreads /\ ub = NoBuffer
    /\ clients = [val |-> [t \in {"a", "n"} |-> 0], subs |-> [t \in {"a", "n"} |-> {}],
                  queue |-> <<>>, buffer |-> <<>>, issued |-> 0,
                  commits |-> [t \in {"a", "n"} |-> 0], held |-> {0}, sets |-> 0, proposals |-> 0,
                  up |-> [k \in Clients |-> <<>>],
                  c |-> [k \in Clients |-> NewMirror]]

\* ClientManager.send_update: one "update" message for each client subscribed
\* to a topic of the changes, with the changes of the topics it subscribes to
RECURSIVE Updates(_, _, _)
Updates(subs, changes, k) ==
    IF k > MaxClients THEN <<>>
    ELSE LET mine == SelectSeq(changes, LAMBDA ch : k \in subs[ch.topic])
         IN  (IF mine = <<>> THEN <<>>
              ELSE <<[to |-> k, type |-> "update", changes |-> mine]>>)
                 \o Updates(subs, changes, k + 1)

\* an update that is queued twice
C17_SendTwice(subs, changes, k) ==
    Updates(subs, changes, k) \o Updates(subs, changes, k)

\* ChatroomServer._on_changes_made: the changes of the transition are broadcast
SendUpdateNow(subs, changes, k) == Updates(subs, changes, k)

\* a flush that reaches every client, subscribed or about to be
C15_FlushToAll(subs, buffer) == Updates([t \in {"a", "n"} |-> Clients], buffer, 1)

\* UpdateBuffer.flush: the changes kept for later are sent (merge_changes of a
\* generic topic returns them as they are)
Flushed(subs, buffer) == Updates(subs, buffer, 1)

\* ChatroomClient.RegisterTopic: the topic object is made and "subscribe" sent
RegisterTopic(k, t) ==
    /\ t \notin clients.c[k].reg /\ Cardinality(clients.c[k].reg) < MaxRegs
    /\ clients' = [clients EXCEPT
          !.c[k].reg = @ \cup {t},
          !.up[k] = Append(@, [type |-> "subscribe", topic |-> t,
                               change |-> MirrorChange(t, 0, <<>>, GenerateId(0), 0)])]
    /\ UNCHANGED <<cfg, sm, history, trans, net, ot, topicval, threads, ub>>

\* Topic._UpdateByUser with SetChange(v): the change is displayed, appended to
\* the preview path and sent to the server. Its id is new (a uuid).
UpdateByUser(k, v) ==
    /\ "a" \in clients.c[k].reg
    /\ clients.proposals < MaxProposals
    /\ LET change == MirrorChange("a", v, <<clients.c[k].value["a"]>>,
                                  [by |-> ClientName[k], n |-> clients.c[k].made + 1], k)
       IN  clients' = [clients EXCEPT
              !.proposals = @ + 1,
              !.c[k].made = @ + 1,
              !.c[k].value["a"] = v,
              !.c[k].path = Append(@, change),
              !.up[k] = Append(@, [type |-> "action", topic |-> "a", change |-> change])]
    /\ UNCHANGED <<cfg, sm, history, trans, net, ot, topicval, threads, ub>>

\* ClientManager._handle_subscribe: the buffer is flushed, the sender is added
\* to the subscribers and the init message, which the client reads as a
\* SetChange, is queued
HandleSubscribe(k, t) ==
    clients' = [clients EXCEPT
        !.up[k] = Tail(@),
        !.buffer = <<>>,
        !.subs[t] = @ \cup {k},
        !.issued = @ + 1,
        !.queue = @ \o Flushed(clients.subs, clients.buffer)
                    \o <<[to |-> k, type |-> "init",
                          changes |-> <<[MirrorChange(t, clients.val[t], <<>>,
                                                      GenerateId(clients.issued), 0)
                                          EXCEPT !.no = clients.commits[t]]>>]>>]

\* the action's change was applied and the record scope exited: the topic has
\* the value and the transition's change is broadcast
Committed(k, r) ==
    clients' = [clients EXCEPT
        !.up[k] = Tail(@),
        !.val["a"] = r.value,
        !.held = @ \cup {r.value},
        !.issued = r.issued,
        !.commits["a"] = @ + 1,
        !.queue = @ \o SendUpdateNow(clients.subs,
                                     <<[r.change EXCEPT !.no = clients.commits["a"] + 1]>>, 1)]

\* ChatroomServer._handle_action with one command: a change the validator
\* rejects makes the record scope raise, and the sender is sent the reject
\* (with the change, as in reject_update); any other change is applied
HandleAction1(k, change) ==
    IF change.value = BadValue
    THEN clients' = [clients EXCEPT
            !.up[k] = Tail(@),
            !.queue = Append(@, [to |-> k, type |-> "reject", changes |-> <<change>>])]
    ELSE Committed(k, SetChangeApply(change, clients.val["a"], clients.issued))

\* ClientManager.handle_client: the next message of client k is handled
HandleMessage(k) ==
    /\ clients.up[k] # <<>>
    /\ IF Head(clients.up[k]).type = "subscribe"
       THEN HandleSubscribe(k, Head(clients.up[k]).topic)
       ELSE HandleAction1(k, Head(clients.up[k]).change)
    /\ UNCHANGED <<cfg, sm, history, trans, net, ot, topicval, threads, ub>>

\* the server sets the non-stateful topic; UpdateBuffer.add_changes keeps the
\* change for later
ServerSet(v) ==
    /\ clients.sets < MaxServerSets
    /\ clients' = [clients EXCEPT
          !.sets = @ + 1,
          !.val["n"] = v,
          !.issued = @ + 1,
          !.commits["n"] = @ + 1,
          !.buffer = Append(@, [MirrorChange("n", v, <<clients.val["n"]>>,
                                             GenerateId(clients.issued), 0)
                                   EXCEPT !.no = clients.commits["n"] + 1])]
    /\ UNCHANGED <<cfg, sm, history, trans, net, ot, topicval, threads, ub>>

\* the clock of the UpdateBuffer ticks
Tick ==
    /\ clients.buffer # <<>>
    /\ clients' = [clients EXCEPT
          !.buffer = <<>>,
          !.queue = @ \o Flushed(clients.subs, clients.buffer)]
    /\ UNCHANGED <<cfg, sm, history, trans, net, ot, topicval, threads, ub>>

\* an undo that leaves the displayed value as it is
C16_UndoNothing(value, path) == value

\* for change in reversed(path): change.Inverse().Apply(value), where the
\* inverse of a SetChange sets its old_value
RECURSIVE UndoAll2(_, _)
UndoAll2(value, path) ==
    IF path = <<>> THEN value
    ELSE UndoAll2(path[Len(path)].old[1], SubSeq(path, 1, Len(path) - 1))

\* an Update that applies the change although it is the head of the path
C18_NeverPop(mirror, type, change) ==
    Did([mirror EXCEPT
            !.value[change.topic] = change.value,
            !.path = IF change.topic = "a" THEN <<>> ELSE @,
            !.confirmed = IF change.topic = "a" THEN change.value ELSE @],
        "apply", type, change)

\* Topic.Update: the head of the preview path is confirmed, or every previewed
\* change is undone and the change of the server applied
TopicUpdate(mirror, type, change) ==
    LET path == IF change.topic = "a" THEN mirror.path ELSE <<>>
    IN  IF path # <<>> /\ change.id = path[1].id
        THEN Did([mirror EXCEPT !.path = Tail(@), !.confirmed = change.value],
                 "pop", type, change)
        ELSE Did([mirror EXCEPT
                     !.value[change.topic] = change.value,
                     !.path = IF change.topic = "a" THEN <<>> ELSE @,
                     !.confirmed = IF change.topic = "a" THEN change.value ELSE @],
                 "apply", type, change)

\* _handle_update: every change of the message goes to its topic
RECURSIVE HandleUpdate(_, _, _)
HandleUpdate(mirror, type, changes) ==
    IF changes = <<>> THEN mirror
    ELSE HandleUpdate(TopicUpdate(mirror, type, Head(changes)), type, Tail(changes))

\* a rejection that is ignored
C19_IgnoreReject(mirror, change) == Did(mirror, "ignore", "reject", change)

\* Topic.UpdateRejected: when the rejected change is the head of the preview
\* path, every previewed change is undone
UpdateRejected(mirror, change) ==
    IF mirror.path # <<>> /\ mirror.path[1].id = change.id
    THEN Did([mirror EXCEPT !.value["a"] = UndoAll2(@, mirror.path), !.path = <<>>],
             "undo", "reject", change)
    ELSE Did(mirror, "ignore", "reject", change)

\* ClientManager.run and the client's _ReceivingLoop: the next message of the
\* sending queue reaches its client, which handles it
Deliver ==
    /\ clients.queue # <<>>
    /\ LET msg == Head(clients.queue)
       IN  clients' = [clients EXCEPT
              !.queue = Tail(@),
              !.c[msg.to] =
                  [(IF msg.type = "reject" THEN UpdateRejected(@, msg.changes[1])
                    ELSE HandleUpdate(@, msg.type, msg.changes))
                   EXCEPT !.read = 1 - @]]
    /\ UNCHANGED <<cfg, sm, history, trans, net, ot, topicval, threads, ub>>

NextClients ==
    \/ \E k \in Clients, t \in {"a", "n"} : RegisterTopic(k, t)
    \/ \E k \in Clients, v \in Values : UpdateByUser(k, v)
    \/ \E k \in Clients : HandleMessage(k)
    \/ \E v \in Values \ {0} : ServerSet(v)
    \/ Tick
    \/ Deliver

SpecClients == InitClients /\ [][NextClients]_vars

\* ---------------------------------------------------------------------------
\* Threads that use one StateMachine: record, apply_change and the RLock
\* ---------------------------------------------------------------------------

\* threads
MaxThreads == 2
\* times the lock is taken in one behaviour
MaxScopes == 3
\* changes applied in one behaviour
MaxApplied == 3
\* record scopes one thread nests inside its own
MaxNested == 1

Threads == 1 .. MaxThreads

\* no thread holds the lock
Nobody == 0

\* what a thread has just done: what is "none", "raised" (RuntimeError of
\* record), "reentered" (record yielded at once), "waits" (for the lock) or
\* "read" (of a topic value); open says that the record scope of another
\* thread was open then, mid that this scope had changed a topic already
Step20(t, what) ==
    [t |-> t, what |-> what,
     open |-> threads.is_recording /\ threads.owner # t,
     mid |-> threads.is_recording /\ threads.owner # t /\ threads.changes_list # <<>>]

\* StateMachine.__init__: not recording, the lock free. at[t] is where thread
\* t is: "idle", "waiting" (in record, for the lock), "applying" (in
\* apply_change, for the lock), "body" (in the scope that holds the lock) or
\* "reentered" (in a scope record yielded without the lock); back[t] is where
\* it was when it called apply_change; emitted are the transitions passed to
\* the transition callback, each with the number of its taking of the lock
InitThreads ==
    /\ cfg = CfgChain
    /\ sm = NewMachine
    /\ history = FALSE
    /\ trans = <<>>
    /\ net = NewNet
    /\ ot = NoStrings
    /\ topicval = NoValue /\ clients = NoClients /\ ub = NoBuffer
    /\ threads = [is_recording |-> FALSE, owner |-> Nobody, changes_list |-> <<>>,
                  at |-> [t \in Threads |-> "idle"],
                  back |-> [t \in Threads |-> "idle"],
                  depth |-> [t \in Threads |-> 0],
                  taken |-> 0, applied |-> 0, emitted |-> <<>>,
                  last |-> [t |-> 0, what |-> "none", open |-> FALSE, mid |-> FALSE]]

\* record up to `with self._lock`: _is_recording is read before the lock is
\* asked for. While a scope is open the call raises RuntimeError, or, with
\* allow_reentry, yields at once; otherwise the thread goes on to take the lock
CallRecord(t, allow_reentry) ==
    /\ threads.at[t] \in {"idle", "body"}
    /\ IF threads.is_recording
       THEN IF ~allow_reentry
            THEN threads' = [threads EXCEPT !.last = Step20(t, "raised")]
            ELSE /\ threads.depth[t] < MaxNested
                 /\ threads' = [threads EXCEPT
                       !.at[t] = IF @ = "idle" THEN "reentered" ELSE @,
                       !.depth[t] = IF threads.at[t] = "idle" THEN @ ELSE @ + 1,
                       !.last = Step20(t, "reentered")]
       ELSE /\ threads.taken < MaxScopes
            /\ threads' = [threads EXCEPT !.at[t] = "waiting", !.last = Step20(t, "waits")]
    /\ UNCHANGED <<cfg, sm, history, trans, net, ot, topicval, clients, ub>>

\* RLock.acquire by a thread that does not hold it
LockFree(t) == threads.owner = Nobody

\* record from `with self._lock` to the yield: the recording is set up
EnterRecord(t) ==
    /\ threads.at[t] = "waiting"
    /\ LockFree(t)
    /\ threads' = [threads EXCEPT
          !.owner = t, !.is_recording = TRUE, !.changes_list = <<>>,
          !.taken = @ + 1, !.at[t] = "body"]
    /\ UNCHANGED <<cfg, sm, history, trans, net, ot, topicval, clients, ub>>

\* apply_change: by the thread of the open scope the change is applied and
\* appended to _changes_list (the lock is re-entrant); any other thread asks
\* for the lock
ThreadApplyChange(t) ==
    /\ threads.applied < MaxApplied
    /\ threads.at[t] \in {"idle", "body", "reentered"}
    /\ IF threads.at[t] = "body"
       THEN threads' = [threads EXCEPT
               !.applied = @ + 1, !.changes_list = Append(@, t)]
       ELSE /\ threads.taken < MaxScopes
            /\ threads' = [threads EXCEPT
                  !.at[t] = "applying", !.back[t] = threads.at[t],
                  !.last = Step20(t, "waits")]
    /\ UNCHANGED <<cfg, sm, history, trans, net, ot, topicval, clients, ub>>

\* apply_change with the lock: not recording, so a record scope is entered and
\* the change applied in it
EnterApply(t) ==
    /\ threads.at[t] = "applying"
    /\ LockFree(t)
    /\ threads' = [threads EXCEPT
          !.owner = t, !.is_recording = TRUE, !.changes_list = <<t>>,
          !.taken = @ + 1, !.applied = @ + 1, !.at[t] = "body"]
    /\ UNCHANGED <<cfg, sm, history, trans, net, ot, topicval, clients, ub>>

\* the body of a scope reads a topic (Topic.get takes no lock)
ReadTopic(t) ==
    /\ threads.at[t] \in {"body", "reentered"}
    /\ threads.last # Step20(t, "read")
    /\ threads' = [threads EXCEPT !.last = Step20(t, "read")]
    /\ UNCHANGED <<cfg, sm, history, trans, net, ot, topicval, clients, ub>>

\* the end of a with block: a nested or re-entered record has nothing to do; the
\* scope that set up the recording passes its transition to the callback when
\* it has changes, resets the recording and releases the lock
ExitRecord(t) ==
    /\ threads.at[t] \in {"body", "reentered"}
    /\ IF threads.depth[t] > 0
       THEN threads' = [threads EXCEPT !.depth[t] = @ - 1]
       ELSE IF threads.at[t] = "reentered"
       THEN threads' = [threads EXCEPT !.at[t] = "idle"]
       ELSE threads' = [threads EXCEPT
               !.emitted = IF threads.changes_list = <<>> THEN @
                           ELSE Append(@, [by |-> t, no |-> threads.taken,
                                           changes |-> threads.changes_list]),
               !.is_recording = FALSE, !.changes_list = <<>>, !.owner = Nobody,
               !.at[t] = threads.back[t], !.back[t] = "idle"]
    /\ UNCHANGED <<cfg, sm, history, trans, net, ot, topicval, clients, ub>>

NextThreads ==
    \/ \E t \in Threads, allow_reentry \in BOOLEAN : CallRecord(t, allow_reentry)
    \/ \E t \in Threads : EnterRecord(t)
    \/ \E t \in Threads : ThreadApplyChange(t)
    \/ \E t \in Threads : EnterApply(t)
    \/ \E t \in Threads : ReadTopic(t)
    \/ \E t \in Threads : ExitRecord(t)

SpecThreads == InitThreads /\ [][NextThreads]_vars

\* ---------------------------------------------------------------------------
\* The UpdateBuffer (src/src/topicsync/server/update_buffer.py)
\* ---------------------------------------------------------------------------

\* changes handed to add_changes in one behaviour
MaxBuffered == 4

\* "a" is stateful; "n" (a generic topic) and "m" (a string topic) are not
BufTopics == {"a", "n", "m"}
BufStateful(t) == t = "a"

\* the action ids of the callers
ActionIds == {"act1", "act2"}

\* a change handed to add_changes: a SetChange or another change of its topic.
\* no numbers the changes handed over; it names the change in the properties
\* and is not part of the object (merge_changes rewrites value and id)
BufChange(t, kind, no) == [topic |-> t, kind |-> kind, value |-> no, id |-> no, no |-> no]

\* UpdateBuffer.__init__: nothing kept for later. keys is the order of the keys
\* of _to_send_later. Kept for the properties: sends[no], how many times change
\* no was handed to _send_update (alone or in a merge); gone, the changes
\* dropped; last, the last call and what it handed to _send_update; tick, which
\* flips with every call
InitBuffer ==
    /\ cfg = CfgChain
    /\ sm = NewMachine
    /\ history = FALSE
    /\ trans = <<>>
    /\ net = NewNet
    /\ ot = NoStrings
    /\ topicval = NoValue /\ clients = NoClients /\ threads = NoThreads
    /\ ub = [has |-> BufTopics,
             later |-> [t \in BufTopics |-> <<>>], keys |-> <<>>,
             next |-> 1,
             sends |-> [no \in 1 .. MaxBuffered |-> 0], gone |-> {},
             last |-> [op |-> "none", sent |-> <<>>, action_id |-> "", input |-> <<>>],
             tick |-> 0, failed |-> FALSE]

\* Topic.merge_changes: the changes as they are
GenericMerge(changes) == changes

\* StringTopic.merge_changes, one change of the loop: a SetChange pops the
\* changes above the last SetChange of the stack and overwrites that one's
\* value and id, or is pushed on the empty stack; any other change is pushed
RECURSIVE PopToSet(_)
PopToSet(stack) ==
    IF stack # <<>> /\ stack[Len(stack)].kind # "set"
    THEN PopToSet(SubSeq(stack, 1, Len(stack) - 1))
    ELSE stack

\* a loop body that pushes every change
C34_PushAll(stack, change) == Append(stack, change)

MergeOne(stack, change) ==
    IF change.kind = "set"
    THEN LET s == PopToSet(stack)
         IN  IF s # <<>>
             THEN [s EXCEPT ![Len(s)].value = change.value, ![Len(s)].id = change.id]
             ELSE <<change>>
    ELSE Append(stack, change)

RECURSIVE StringMerge(_, _)
StringMerge(stack, changes) ==
    IF changes = <<>> THEN stack
    ELSE StringMerge(MergeOne(stack, Head(changes)), Tail(changes))

\* get_topic(topic_name).merge_changes(changes)
MergeChanges(t, changes) ==
    IF t = "m" THEN StringMerge(<<>>, changes) ELSE GenericMerge(changes)

\* flush, lines 41-45: the merges of the kept changes, topic by topic in the
\* order of the keys
RECURSIVE MergedAll(_, _)
MergedAll(keys, later) ==
    IF keys = <<>> THEN <<>>
    ELSE MergeChanges(Head(keys), later[Head(keys)]) \o MergedAll(Tail(keys), later)

\* the kept changes, topic by topic
RECURSIVE KeptAll(_, _)
KeptAll(keys, later) ==
    IF keys = <<>> THEN <<>>
    ELSE later[Head(keys)] \o KeptAll(Tail(keys), later)

NosOf(changes) == {changes[i].no : i \in DOMAIN changes}

\* a flush that keeps what it has sent
C23_KeepBuffer(later) == later

\* flush, line 48: self._to_send_later = DefaultDict(list)
Emptied(later) == [t \in BufTopics |-> <<>>]

\* add_changes, the loop: the changes of one call, one after the other; b is
\* the buffer with now, the changes to send at once
RECURSIVE AddLoop(_, _)
AddLoop(b, changes) ==
    IF changes = <<>> THEN b
    ELSE LET change == Head(changes)
             t == change.topic
         IN  AddLoop(IF t \notin b.has
                     THEN [b EXCEPT !.gone = @ \cup {change.no}]
                     ELSE IF BufStateful(t)
                     THEN [b EXCEPT !.now = Append(@, change)]
                     ELSE [b EXCEPT !.later[t] = Append(@, change),
                                    !.keys = IF \E i \in DOMAIN b.keys : b.keys[i] = t
                                             THEN @ ELSE Append(@, t)],
                     Tail(changes))

\* the buffer fields and the changes to send at once
WithNow(b) ==
    [has |-> b.has, later |-> b.later, keys |-> b.keys, gone |-> b.gone, now |-> <<>>]

\* UpdateBuffer.add_changes(changes, action_id)
AddChanges(changes, action_id) ==
    /\ ub.next + Len(changes) - 1 <= MaxBuffered
    /\ LET b == AddLoop(WithNow(ub), changes)
       IN  ub' = [ub EXCEPT
              !.later = b.later, !.keys = b.keys, !.gone = b.gone,
              !.next = @ + Len(changes),
              !.sends = [no \in 1 .. MaxBuffered |->
                            IF no \in NosOf(b.now) THEN @[no] + 1 ELSE @[no]],
              !.last = [op |-> "add", sent |-> b.now, action_id |-> action_id,
                        input |-> changes],
              !.tick = 1 - @]
    /\ UNCHANGED <<cfg, sm, history, trans, net, ot, topicval, clients, threads>>

\* the changes one call can bring: one or two, numbered from next on
Batches(next) ==
    {<<BufChange(t, k, next)>> : t \in BufTopics, k \in {"set", "other"}}
    \cup {<<BufChange(t1, k1, next), BufChange(t2, k2, next + 1)>> :
            t1 \in BufTopics, k1 \in {"set", "other"},
            t2 \in BufTopics, k2 \in {"set", "other"}}

\* a listener that leaves the kept changes where they are
C39_KeepKept(b, topic_name) == b

\* UpdateBuffer.on_topic_remove (lines 36-37): _to_send_later.pop(topic_name, None)
OnTopicRemove(b, topic_name) ==
    [b EXCEPT !.later[topic_name] = <<>>,
              !.keys = SelectSeq(@, LAMBDA k : k # topic_name)]

\* the topic is removed from the state machine, and on_topic_remove, a
\* listener of on_remove of the topic list (lines 18-20), drops the changes
\* kept for it
RemoveTopic(t) ==
    /\ t \in ub.has
    /\ ub' = [OnTopicRemove(ub, t) EXCEPT
          !.has = @ \ {t},
          !.gone = @ \cup NosOf(ub.later[t]),
          !.last = [op |-> "remove", sent |-> <<>>, action_id |-> "", input |-> ub.later[t]],
          !.tick = 1 - @]
    /\ UNCHANGED <<cfg, sm, history, trans, net, ot, topicval, clients, threads>>

\* a topic of that name is added again
AddTopic(t) ==
    /\ t \notin ub.has
    /\ ub' = [ub EXCEPT
          !.has = @ \cup {t},
          !.last = [op |-> "topic", sent |-> <<>>, action_id |-> "", input |-> <<>>],
          !.tick = 1 - @]
    /\ UNCHANGED <<cfg, sm, history, trans, net, ot, topicval, clients, threads>>

\* UpdateBuffer.flush, on the clock's tick or before an init message;
\* get_topic (line 44) raises KeyError for a key that is no topic of the
\* machine, before anything is sent or emptied
Flush ==
    /\ ub' = IF \E i \in DOMAIN ub.keys : ub.keys[i] \notin ub.has
             THEN [ub EXCEPT !.failed = TRUE,
                      !.last = [op |-> "flush", sent |-> <<>>, action_id |-> "clock",
                                input |-> <<>>],
                      !.tick = 1 - @]
             ELSE [ub EXCEPT
          !.later = Emptied(ub.later), !.keys = <<>>,
          !.sends = [no \in 1 .. MaxBuffered |->
                        IF no \in NosOf(KeptAll(ub.keys, ub.later)) THEN @[no] + 1 ELSE @[no]],
          !.last = [op |-> "flush", sent |-> MergedAll(ub.keys, ub.later),
                    action_id |-> "clock", input |-> KeptAll(ub.keys, ub.later)],
          !.tick = 1 - @]
    /\ UNCHANGED <<cfg, sm, history, trans, net, ot, topicval, clients, threads>>

NextBuffer ==
    \/ \E changes \in Batches(ub.next), action_id \in ActionIds : AddChanges(changes, action_id)
    \/ \E t \in BufTopics : RemoveTopic(t)
    \/ \E t \in BufTopics : AddTopic(t)
    \/ Flush

SpecBuffer == InitBuffer /\ [][NextBuffer]_vars

\* ---------------------------------------------------------------------------
\* Connections that close (ClientManager.handle_client, run, _cleanup_client)
\* ---------------------------------------------------------------------------

\* broadcasts in one behaviour
MaxBroadcasts == 2

ConnTopics == {"a", "b"}

\* ClientManager with two connected clients whose handle_client coroutines
\* wait in `async for message in ws`. ws[k] is the connection ("open",
\* "closed_ok" after a normal closure, "closed_error" after any other);
\* reader[k] is "reading" until handle_client has returned; val are the topics'
\* values. Kept for the properties: cleaned, the clients _cleanup_client was
\* called for; seen, the clients whose closed connection the server has met
\* (reading or writing); last, the last step and the state before it
InitConn ==
    /\ cfg = CfgChain
    /\ sm = NewMachine
    /\ history = FALSE
    /\ trans = <<>>
    /\ ot = NoStrings
    /\ topicval = NoValue /\ clients = NoClients /\ threads = NoThreads /\ ub = NoBuffer
    /\ net = [subs |-> [t \in ConnTopics |-> {}], queue |-> <<>>,
              ws |-> [k \in Clients |-> "open"],
              reader |-> [k \in Clients |-> "reading"],
              val |-> [t \in ConnTopics |-> 0], broadcasts |-> 0,
              cleaned |-> {}, seen |-> {},
              last |-> [op |-> "none", k |-> 0, queued |-> <<>>]]

\* a cleanup that forgets the client's subscriptions to one topic only
C24_CleanupFirst(subs, k) == [subs EXCEPT !["a"] = @ \ {k}]

\* ClientManager._cleanup_client: the id is discarded from every subscription set
CleanupClient(subs, k) == [t \in ConnTopics |-> subs[t] \ {k}]

\* _handle_subscribe for a message client k sent on its open connection
ConnSubscribe(k, t) ==
    /\ net.reader[k] = "reading" /\ net.ws[k] = "open"
    /\ k \notin net.subs[t]
    /\ net' = [net EXCEPT
          !.subs[t] = @ \cup {k},
          !.queue = Append(@, [to |-> k, type |-> "init", topic |-> t]),
          !.last = [op |-> "subscribe", k |-> k,
                    queued |-> <<[to |-> k, type |-> "init", topic |-> t]>>]]
    /\ UNCHANGED <<cfg, sm, history, trans, ot, topicval, clients, threads, ub>>

\* send_update, lines 106-112: a message for every subscriber of the topic
RECURSIVE UpdatesFor(_, _, _)
UpdatesFor(subs, t, k) ==
    IF k > MaxClients THEN <<>>
    ELSE (IF k \in subs[t] THEN <<[to |-> k, type |-> "update", topic |-> t]>> ELSE <<>>)
            \o UpdatesFor(subs, t, k + 1)

\* a change of topic t is committed and broadcast
ConnBroadcast(t) ==
    /\ net.broadcasts < MaxBroadcasts
    /\ net' = [net EXCEPT
          !.val[t] = 1 - @,
          !.broadcasts = @ + 1,
          !.queue = @ \o UpdatesFor(net.subs, t, 1),
          !.last = [op |-> "broadcast", k |-> 0, queued |-> UpdatesFor(net.subs, t, 1)]]
    /\ UNCHANGED <<cfg, sm, history, trans, ot, topicval, clients, threads, ub>>

\* the connection of client k closes, normally or not
Close(k, how) ==
    /\ net.ws[k] = "open"
    /\ net' = [net EXCEPT !.ws[k] = how, !.last = [op |-> "close", k |-> k, queued |-> <<>>]]
    /\ UNCHANGED <<cfg, sm, history, trans, ot, topicval, clients, threads, ub>>

\* handle_client, lines 77-96, on a closed connection: `async for` raises
\* ConnectionClosed, which line 94 catches and cleans up after; or the
\* iteration ends (a normal closure) and handle_client returns from the loop,
\* where there is no cleanup
ReaderMeetsClose(k) ==
    /\ net.reader[k] = "reading" /\ net.ws[k] # "open"
    /\ net' = [net EXCEPT
          !.reader[k] = "returned",
          !.seen = @ \cup {k},
          !.subs = IF net.ws[k] = "closed_error" THEN CleanupClient(@, k) ELSE @,
          !.cleaned = IF net.ws[k] = "closed_error" THEN @ \cup {k} ELSE @,
          !.last = [op |-> "read", k |-> k, queued |-> <<>>]]
    /\ UNCHANGED <<cfg, sm, history, trans, ot, topicval, clients, threads, ub>>

\* ClientManager.run, lines 56-60: the next message is sent; on a closed
\* connection send raises ConnectionClosed and the client is cleaned up
ConnSendOne ==
    /\ net.queue # <<>>
    /\ LET k == Head(net.queue).to
       IN  net' = [net EXCEPT
              !.queue = Tail(@),
              !.seen = IF net.ws[k] = "open" THEN @ ELSE @ \cup {k},
              !.subs = IF net.ws[k] = "open" THEN @ ELSE CleanupClient(@, k),
              !.cleaned = IF net.ws[k] = "open" THEN @ ELSE @ \cup {k},
              !.last = [op |-> "send", k |-> k, queued |-> <<>>]]
    /\ UNCHANGED <<cfg, sm, history, trans, ot, topicval, clients, threads, ub>>

NextConn ==
    \/ \E k \in Clients, t \in ConnTopics : ConnSubscribe(k, t)
    \/ \E t \in ConnTopics : ConnBroadcast(t)
    \/ \E k \in Clients, how \in {"closed_ok", "closed_error"} : Close(k, how)
    \/ \E k \in Clients : ReaderMeetsClose(k)
    \/ ConnSendOne

SpecConn == InitConn /\ [][NextConn]_vars

\* ---------------------------------------------------------------------------
\* merge_changes of a string topic and of a list topic
\* ---------------------------------------------------------------------------

\* changes in one list handed to merge_changes
MaxMerge == 3
\* length of the value the first change is composed against
MaxBase == 2

\* a change of a string topic (set, insert, delete) or of a list topic (set,
\* insert, pop; an item is one element of the value)
MChange(kind, value, position, text, id) ==
    [kind |-> kind, value |-> value, position |-> position, text |-> text, id |-> id]

\* the changes that apply to the value cur, with the given id
MChangesOn(cur, id) ==
    {MChange("set", v, 0, <<>>, id) : v \in {<<>>, <<"a">>, <<"b", "a">>} \ {cur}}
    \cup {MChange("insert", <<>>, p, <<"x">>, id) : p \in 0 .. Len(cur)}
    \cup {MChange("delete", <<>>, p - 1, <<cur[p]>>, id) : p \in 1 .. Len(cur)}

\* SetChange.apply, InsertChange.apply, DeleteChange.apply (PopChange.apply)
MApply(c, old_value) ==
    IF c.kind = "set" THEN Valid(c.value)
    ELSE IF c.kind = "insert" THEN StringInsert(old_value, c.position, c.text)
    ELSE StringDelete(old_value, c.position, c.text)

\* the changes applied in order; Invalid when one of them raises
RECURSIVE MApplyAll(_, _)
MApplyAll(r, changes) ==
    IF changes = <<>> \/ ~r.ok THEN r
    ELSE MApplyAll(MApply(Head(changes), r.value), Tail(changes))

\* ListTopic.merge_changes: the loop of StringTopic.merge_changes over
\* ListChangeTypes
ListMerge(stack, changes) == StringMerge(stack, changes)

\* a string topic or a list topic with a value, and the changes applied to it
\* since the last flush (input); cur is the topic's value, merged the result of
\* merge_changes once it was called
InitMerge ==
    /\ cfg = CfgChain
    /\ sm = NewMachine
    /\ history = FALSE
    /\ trans = <<>>
    /\ net = NewNet
    /\ ot = NoStrings
    /\ topicval = NoValue /\ clients = NoClients /\ threads = NoThreads
    /\ \E type \in {"string", "list"}, base \in StringsOver({"a", "b"}, MaxBase) :
          ub = [kind |-> "merge", type |-> type, base |-> base, cur |-> base,
                input |-> <<>>, called |-> FALSE, merged |-> <<>>]

\* a change is applied to the topic and kept for the next flush
ComposeChange ==
    /\ ~ub.called /\ Len(ub.input) < MaxMerge
    /\ \E c \in MChangesOn(ub.cur, Len(ub.input) + 1) :
          ub' = [ub EXCEPT !.input = Append(@, c), !.cur = MApply(c, ub.cur).value]
    /\ UNCHANGED <<cfg, sm, history, trans, net, ot, topicval, clients, threads>>

\* topic.merge_changes(changes)
CallMerge ==
    /\ ~ub.called
    /\ ub' = [ub EXCEPT !.called = TRUE,
                        !.merged = IF ub.type = "string" THEN StringMerge(<<>>, ub.input)
                                   ELSE ListMerge(<<>>, ub.input)]
    /\ UNCHANGED <<cfg, sm, history, trans, net, ot, topicval, clients, threads>>

NextMerge ==
    \/ ComposeChange
    \/ CallMerge

SpecMerge == InitMerge /\ [][NextMerge]_vars


\* ------------------------------------------- the topic list of the server
\* ChatroomServer.__init__ (server.py 29-33): the meta-topic
\* _chatroom/topic_list with the manual listeners _add_topic_raw on on_add and
\* _remove_topic_raw on on_remove. Its entry for itself is left out: no
\* action of the model names it.
MaxScope == 2
MaxKept == 2
TopicNames == {"x", "y"}
TypeNames == {"int", "string"}
NoTopic == "no topic"

\* DictChangeTypes.AddChange and PopChange on the meta-topic; the value of an
\* entry is the type it records
ListChange(type, key, value) == [type |-> type, key |-> key, value |-> value]

ListChanges ==
    {ListChange("add", k, v) : k \in TopicNames, v \in TypeNames}
        \cup {ListChange("pop", k, NoTopic) : k \in TopicNames}

\* AddChange.apply (change.py 409-413), PopChange.apply (430-434)
EntryValid(c, dict) ==
    IF c.type = "add" THEN dict[c.key] = NoTopic ELSE dict[c.key] # NoTopic

EntryApply(c, dict) ==
    [dict EXCEPT ![c.key] = IF c.type = "add" THEN c.value ELSE NoTopic]

\* PopChange.apply keeps the popped value in the change (line 433)
EntryApplied(c, dict) ==
    IF c.type = "pop" THEN [c EXCEPT !.value = dict[c.key]] ELSE c

\* AddChange.inverse (416-417), PopChange.inverse (437-438)
EntryInverse(c) ==
    IF c.type = "add" THEN ListChange("pop", c.key, NoTopic)
    ELSE ListChange("add", c.key, c.value)

\* _remove_topic_raw -> StateMachine.remove_topic: del self._state[name]
ListenerRaises(c, state) == c.type = "pop" /\ state[c.key] = NoTopic

\* _add_topic_raw -> add_topic_s (self._state[name] = topic),
\* _remove_topic_raw -> remove_topic
ListenersOf(c, state) ==
    [state EXCEPT ![c.key] = IF c.type = "add" THEN c.value ELSE NoTopic]

\* Node.clear_subtree (transition_tree.py 22-32): topic.apply_change of the
\* inverse, which stores the value and notifies no listener
ClearOne(c, dict) == EntryApply(EntryInverse(c), dict)

RECURSIVE ClearSubtree(_, _)
ClearSubtree(applied, dict) ==
    IF applied = <<>> THEN dict
    ELSE ClearSubtree(SubSeq(applied, 1, Len(applied) - 1),
                      ClearOne(applied[Len(applied)], dict))

\* a record scope whose body applies the changes one after the other
\* (state_machine.py 104-121, 187-236); r holds the meta-topic, the topics of
\* the machine, the changes of the tree and the exception
RECURSIVE ScopeOf(_, _, _)
ScopeOf(r, changes, i) ==
    IF i > Len(changes) THEN r
    ELSE LET c == changes[i] IN
         IF ~EntryValid(c, r.meta)
         THEN \* InvalidChangeError from topic.apply_change: record's except
              \* clause calls _try_recover
              [r EXCEPT !.meta = ClearSubtree(r.applied, r.meta),
                        !.rolled = @ \/ r.applied # <<>>,
                        !.applied = <<>>, !.exc = "InvalidChange"]
         ELSE IF ListenerRaises(c, r.state)
         THEN \* the manual listener raised: CRITICAL, nothing is recovered
              [r EXCEPT !.meta = EntryApply(c, @),
                        !.applied = Append(@, EntryApplied(c, r.meta)),
                        !.exc = "KeyError"]
         ELSE ScopeOf([r EXCEPT !.meta = EntryApply(c, @),
                                !.state = ListenersOf(c, @),
                                !.applied = Append(@, EntryApplied(c, r.meta))],
                      changes, i + 1)

NewList ==
    [kind |-> "topics",
     meta |-> [n \in TopicNames |-> NoTopic],
     state |-> [n \in TopicNames |-> NoTopic],
     kept |-> <<>>, rolled |-> FALSE, applied |-> <<>>, exc |-> None,
     last |-> "init"]

InitList ==
    /\ cfg = CfgChain
    /\ sm = NewMachine
    /\ history = FALSE
    /\ trans = <<>>
    /\ net = NewNet
    /\ ot = NoStrings
    /\ topicval = NoValue /\ clients = NoClients /\ threads = NoThreads
    /\ ub = NewList

\* the end of a scope: a transition is kept when the scope ended without
\* exception and emits (state_machine.py 122-126)
ScopeEnded(r, emit, op) ==
    [r EXCEPT !.kept = IF emit /\ r.exc = None /\ r.applied # <<>>
                       THEN Append(@, r.applied) ELSE @,
              !.last = op]

Scope(changes) == ScopeOf([ub EXCEPT !.applied = <<>>, !.exc = None], changes, 1)

\* a client action on the meta-topic: its changes in one record scope
ClientAction ==
    /\ Len(ub.kept) < MaxKept
    /\ \E n \in 1..MaxScope : \E changes \in [1..n -> ListChanges] :
          ub' = ScopeEnded(Scope(changes), TRUE, "action")
    /\ UNCHANGED <<cfg, sm, history, trans, net, ot, topicval, clients, threads>>

\* ChatroomServer.add_topic (server.py 151-157)
ServerAddTopic ==
    /\ Len(ub.kept) < MaxKept
    /\ \E name \in TopicNames, type \in TypeNames :
          ub' = IF ub.state[name] # NoTopic
                THEN [ub EXCEPT !.exc = "Exception", !.last = "add_topic"]
                ELSE ScopeEnded(Scope(<<ListChange("add", name, type)>>),
                                TRUE, "add_topic")
    /\ UNCHANGED <<cfg, sm, history, trans, net, ot, topicval, clients, threads>>

\* ChatroomServer.remove_topic (server.py 159-168): change_value of the entry
\* to itself, then DictTopic.remove(topic_name) (topic.py 433-437), which
\* looks the name up among the values of the dict and raises ValueError; the
\* scope is rolled back with the entry as it was
ServerRemoveTopic ==
    /\ \E name \in TopicNames :
          ub' = [ub EXCEPT !.exc = IF ub.state[name] = NoTopic THEN "Exception"
                                   ELSE IF ub.meta[name] = NoTopic THEN "KeyError"
                                   ELSE "ValueError",
                           !.last = "remove_topic"]
    /\ ub'.exc # ub.exc \/ ub'.last # ub.last
    /\ UNCHANGED <<cfg, sm, history, trans, net, ot, topicval, clients, threads>>

RECURSIVE Inverses(_)
Inverses(changes) ==
    IF changes = <<>> THEN <<>>
    ELSE Append(Inverses(Tail(changes)), EntryInverse(Head(changes)))

\* ChatroomServer.undo -> StateMachine.undo (state_machine.py 255-262)
ListUndo ==
    /\ \E i \in DOMAIN ub.kept :
          ub' = ScopeEnded(Scope(Inverses(ub.kept[i])), FALSE, "undo")
    /\ UNCHANGED <<cfg, sm, history, trans, net, ot, topicval, clients, threads>>

\* ChatroomServer.redo -> StateMachine.redo (state_machine.py 264-271)
ListRedo ==
    /\ \E i \in DOMAIN ub.kept :
          ub' = ScopeEnded(Scope(ub.kept[i]), FALSE, "redo")
    /\ UNCHANGED <<cfg, sm, history, trans, net, ot, topicval, clients, threads>>

NextList ==
    \/ ClientAction
    \/ ServerAddTopic
    \/ ServerRemoveTopic
    \/ ListUndo
    \/ ListRedo

SpecList == InitList /\ [][NextList]_vars

\* ---------------------------------------------------------- HistoryManager
\* transitions given to add_transition in one behaviour
MaxAdds == 3

\* the two history_manager.py of the repository
Packages == {"chatroom", "topicsync"}

\* list[i] of Python: a negative index counts from the end; IndexError
\* outside -len .. len - 1
IndexOk(list, i) == i \in -Len(list) .. Len(list) - 1
Indexed(list, i) == IF i >= 0 THEN list[i + 1] ELSE list[Len(list) + i + 1]

\* list[:k] of Python
SliceTo(list, k) ==
    IF k >= 0 THEN SubSeq(list, 1, Min(k, Len(list)))
    ELSE SubSeq(list, 1, Max(Len(list) + k, 0))

\* HistoryManager.__init__ and set_server; the machine is the list of the
\* calls made on it, and undone the transitions whose last call was undo
NewManager(package) ==
    [kind |-> "manager", package |-> package,
     history |-> <<>>, current_ptr |-> -1,
     added |-> 0, undone |-> {}, twice |-> FALSE,
     last |-> [op |-> "init", history |-> <<>>, current_ptr |-> -1,
               undone |-> {}, calls |-> <<>>, exc |-> None]]

InitManager ==
    /\ cfg = CfgChain
    /\ sm = NewMachine
    /\ history = FALSE
    /\ trans = <<>>
    /\ net = NewNet
    /\ ot = NoStrings
    /\ topicval = NoValue /\ clients = NoClients /\ threads = NoThreads
    /\ \E package \in Packages : ub = NewManager(package)

\* what the manager was before the call, and the calls it made on the machine
Before38(op, calls, exc) ==
    [op |-> op, history |-> ub.history, current_ptr |-> ub.current_ptr,
     undone |-> ub.undone, calls |-> calls, exc |-> exc]

\* HistoryManager.add_transition (lines 16-19)
HistoryAdd ==
    /\ ub.added < MaxAdds
    /\ ub' = [ub EXCEPT !.current_ptr = @ + 1,
                        !.history = Append(SliceTo(@, ub.current_ptr + 1), ub.added + 1),
                        !.added = @ + 1,
                        !.undone = {t \in @ : \E i \in 1 .. Len(SliceTo(ub.history, ub.current_ptr + 1)) :
                                                  ub.history[i] = t},
                        !.last = Before38("add", <<>>, None)]
    /\ UNCHANGED <<cfg, sm, history, trans, net, ot, topicval, clients, threads>>

\* the test of HistoryManager.undo (line 22)
UndoGuard(self) ==
    IF self.package = "chatroom" THEN Len(self.history) > 0
    ELSE Len(self.history) > 0 /\ self.current_ptr >= 0

\* HistoryManager.undo (lines 21-24)
HistoryUndo ==
    /\ ub' = IF ~UndoGuard(ub) THEN [ub EXCEPT !.last = Before38("undo", <<>>, None)]
             ELSE IF ~IndexOk(ub.history, ub.current_ptr)
             THEN [ub EXCEPT !.last = Before38("undo", <<>>, "IndexError")]
             ELSE LET t == Indexed(ub.history, ub.current_ptr) IN
                  [ub EXCEPT !.current_ptr = @ - 1,
                             !.undone = @ \cup {t},
                             !.twice = @ \/ t \in ub.undone,
                             !.last = Before38("undo", <<[op |-> "undo", t |-> t]>>, None)]
    /\ UNCHANGED <<cfg, sm, history, trans, net, ot, topicval, clients, threads>>

\* HistoryManager.redo (lines 26-29)
HistoryRedo ==
    /\ ub' = IF ~(ub.current_ptr < Len(ub.history) - 1)
             THEN [ub EXCEPT !.last = Before38("redo", <<>>, None)]
             ELSE IF ~IndexOk(ub.history, ub.current_ptr + 1)
             THEN [ub EXCEPT !.current_ptr = @ + 1,
                             !.last = Before38("redo", <<>>, "IndexError")]
             ELSE LET t == Indexed(ub.history, ub.current_ptr + 1) IN
                  [ub EXCEPT !.current_ptr = @ + 1,
                             !.undone = @ \ {t},
                             !.last = Before38("redo", <<[op |-> "redo", t |-> t]>>, None)]
    /\ UNCHANGED <<cfg, sm, history, trans, net, ot, topicval, clients, threads>>

NextManager ==
    \/ HistoryAdd
    \/ HistoryUndo
    \/ HistoryRedo

SpecManager == InitManager /\ [][NextManager]_vars

\* ------------------------------------------------------------ termination
\* the topics a change of t can make a listener of t change: the targets of
\* its callbacks (t.set in the listener, or in the task it queues), of both hubs
DependsOn(t) ==
    {cfg.auto[t][i].target : i \in {j \in DOMAIN cfg.auto[t] : cfg.auto[t][j].kind # "raise"}}
        \cup {cfg.manual[t][i].target :
                 i \in {j \in DOMAIN cfg.manual[t] : cfg.manual[t][j].kind # "raise"}}

\* the topics reached from those of S in at most n steps of DependsOn
RECURSIVE ReachedFrom(_, _)
ReachedFrom(S, n) ==
    IF n = 0 THEN S
    ELSE ReachedFrom(S \cup UNION {DependsOn(t) : t \in S}, n - 1)

\* no change of a topic can, through listeners, cause a change of that topic
Acyclic ==
    \A t \in Topics : t \notin ReachedFrom(DependsOn(t), Cardinality(Topics))

\* machines whose listeners queue tasks, or cascade and are rolled back
InitLive ==
    /\ cfg \in {CfgAfter, CfgSubtree}
    /\ sm = NewMachine
    /\ history = FALSE
    /\ trans = <<>>
    /\ net = NewNet
    /\ ot = NoStrings
    /\ topicval = NoValue /\ clients = NoClients /\ threads = NoThreads /\ ub = NoBuffer

\* scopes whose bodies set topics
NextLive ==
    \/ Record
    \/ \E t \in Topics, v \in Values : BodySet(t, v, FALSE)
    \/ EndRecord

\* the body of a with block ends: every open scope is left
SpecLive == InitLive /\ [][NextLive]_vars /\ WF_vars(EndRecord)
\* ------------------------------------------------------------------ claims
\* the scopes that have exited in the current run, in the order of their cleanup
Scopes == {sm.done[i] : i \in DOMAIN sm.done}
Failed(s) == s.exc # None

Survivors(s) ==
    {s.applied[i].oid : i \in {j \in DOMAIN s.applied : s.applied[j].recorded}}
        \ {s.reverted[i] : i \in DOMAIN s.reverted}

C6_PreorderIsApplicationOrder ==
    /\ \A s \in Scopes :
          ~Failed(s) =>
            LET InTr(c) == c.inv = 0 /\ \E i \in DOMAIN s.tr : s.tr[i].oid = c.oid
            IN  /\ \A i, j \in DOMAIN s.tr : i < j => s.tr[i].oid < s.tr[j].oid
                /\ SelectSeq(s.cl, InTr) = s.tr
                /\ s.emitted = (s.tr # <<>> /\ s.args.emit)
    /\ ( /\ cfg = CfgChain /\ ~sm.rec /\ sm.op.kind = "set"
         /\ sm.val["a"] # sm.op.before["a"]
         /\ sm.op.before["b"] # sm.val["a"] /\ sm.op.before["c"] # sm.val["a"] )
        => /\ Len(sm.done) = 1 /\ sm.done[1].emitted
           /\ [i \in DOMAIN sm.done[1].tr |-> sm.done[1].tr[i].topic] = <<"a", "b", "c">>

\* C6 witness: the chain's transition [a, b, c] emitted by one a.set
C6_Witness ==
    /\ cfg = CfgChain /\ ~sm.rec /\ sm.op.kind = "set"
    /\ Len(sm.done) = 1 /\ sm.done[1].emitted
    /\ [i \in DOMAIN sm.done[1].tr |-> sm.done[1].tr[i].topic] = <<"a", "b", "c">>

\* positions in a scope's flat list
FwdPos(s, x) == {i \in DOMAIN s.cl : s.cl[i].inv = 0 /\ s.cl[i].oid = x}
InvPos(s, x) == {i \in DOMAIN s.cl : s.cl[i].inv = x}
Reverted(s) == {s.reverted[i] : i \in DOMAIN s.reverted}

\* C7: at scope exit every applied change has exactly one forward entry in the
\* flat changes list; a rolled-back change has in addition exactly one inverse
\* entry, later than its forward entry, and a change that was not rolled back
\* has none; the forward/inverse pairs are nested (the inverses of a subtree
\* come in the reverse order of the forward entries); the list has no other
\* entry, so a change that failed validation has none.
C7_FlatListAccounting ==
    \A s \in Scopes :
        /\ \A i \in DOMAIN s.applied :
              LET x == s.applied[i].oid
              IN  /\ Cardinality(FwdPos(s, x)) = 1
                  /\ Cardinality(InvPos(s, x)) = IF x \in Reverted(s) THEN 1 ELSE 0
                  /\ \A f \in FwdPos(s, x), r \in InvPos(s, x) : f < r
        /\ \A x, y \in Reverted(s) :
              x < y => \A fx \in FwdPos(s, x), rx \in InvPos(s, x),
                          fy \in FwdPos(s, y), ry \in InvPos(s, y) :
                          fx < fy /\ (ry < rx \/ rx < fy)
        /\ Len(s.reverted) = Cardinality(Reverted(s))
        /\ Len(s.cl) = Len(s.applied) + Len(s.reverted)

\* C7 witness: a scope in which a change was rejected, a subtree of two changes
\* was rolled back, and another change stayed
C7_Witness ==
    \E s \in Scopes :
        /\ s.rejected >= 1 /\ Len(s.reverted) >= 2
        /\ Len(s.applied) > Len(s.reverted)

\* C8: while a scope is open, record(allow_reentry=False) raises RuntimeError
\* and leaves phase, mode, error state, tree, cursor, changes list and values
\* as they were; record(allow_reentry=True) does not raise, and the changes of
\* its body are appended to the open scope's changes list; no scope
\* exit is observed while the outermost scope is open, and when it exits
\* exactly one scope with its action id is observed, the first of the run
\* (a refused record() that nobody catches fails that scope).
C8_Step ==
    /\ (sm.rec /\ sm'.last.kind = "record" /\ sm'.last.n = sm.steps + 1) =>
          IF ~sm'.last.allow
          THEN /\ sm'.last.exc = "RuntimeError"
               /\ sm'.rec =>
                     /\ sm'.phase = sm.phase /\ sm'.mode = sm.mode /\ sm'.err = sm.err
                     /\ sm'.nodes = sm.nodes /\ sm'.cursor = sm.cursor
                     /\ sm'.cl = sm.cl /\ sm'.val = sm.val
                     /\ sm'.nested = sm.nested
               /\ ~sm'.rec =>
                     sm'.done[1].exc = IF sm'.done[1].recfail THEN "InvalidChange"
                                       ELSE "RuntimeError"
          ELSE /\ sm'.last.exc # "RuntimeError"
               /\ sm'.rec =>
                     /\ sm'.nested = sm.nested + 1
                     /\ sm'.phase = sm.phase
                     /\ Len(sm'.cl) >= Len(sm.cl)
                     /\ SubSeq(sm'.cl, 1, Len(sm.cl)) = sm.cl
                     /\ sm'.last.exc = None => Len(sm'.cl) > Len(sm.cl)
    /\ sm'.rec => sm'.done = <<>>
    /\ (sm.rec /\ ~sm'.rec) =>
          /\ {i \in DOMAIN sm'.done : sm'.done[i].args.aid = "act"} = {1}
          /\ sm'.done[1].nested = sm.nested \/ sm'.done[1].nested = sm.nested + 1

C8_NestedRecord == [][C8_Step]_vars

\* C8 witness: an open scope that a pass-through record joined and in which a
\* record without allow_reentry was then refused
C8_Witness ==
    /\ sm.rec /\ sm.nested = 1 /\ sm.cl # <<>>
    /\ sm.last.kind = "record" /\ ~sm.last.allow /\ sm.last.exc = "RuntimeError"

\* the last operation was undo (redo) of a held transition, applied to the state
\* right after (before) that transition
UndoneExactly ==
    /\ ~sm.rec /\ sm.op.kind = "undo" /\ sm.op.idx \in DOMAIN trans
    /\ sm.op.before = trans[sm.op.idx].post
RedoneExactly ==
    /\ ~sm.rec /\ sm.op.kind = "redo" /\ sm.op.idx \in DOMAIN trans
    /\ sm.op.before = trans[sm.op.idx].pre

Untracked == trans[sm.op.idx].dirty \cup sm.done[1].dirty

\* the changes of a transition on topic t still carry the old values they
\* replaced, starting from value v (redo rewrites old_value from the state it
\* is applied to)
RECURSIVE OldValuesIntact(_, _, _)
OldValuesIntact(chs, t, v) ==
    IF chs = <<>> THEN TRUE
    ELSE IF Head(chs).topic = t
         THEN Head(chs).old = v /\ OldValuesIntact(Tail(chs), t, Head(chs).value)
         ELSE OldValuesIntact(Tail(chs), t, v)

C5_NoAutoOutsideForwarding ==
    \A s \in Scopes : \A i \in DOMAIN s.fired :
        s.fired[i].auto => s.fired[i].phase = "FORWARDING"

\* how many times task tid ran in the current run
Runs(tid) == Cardinality({i \in DOMAIN sm.taskruns : sm.taskruns[i] = tid})

\* C9, as stated: once the run is over every task queued with
\* do_after_transition has been executed exactly once.
C9_TasksRunOnce ==
    ~sm.rec => \A tid \in 1 .. sm.ntask : Runs(tid) = 1

\* the messages of the last action of a given type
LastMsgs(type) ==
    {i \in DOMAIN net.last.msgs : net.last.msgs[i].type = type}

\* the value client k computes for topic t from value v by applying, in order,
\* the changes on t of the update messages sent to k
RECURSIVE ReplayChanges(_, _, _)
ReplayChanges(v, chs, t) ==
    IF chs = <<>> THEN v
    ELSE ReplayChanges(IF Head(chs).topic = t THEN Head(chs).value ELSE v, Tail(chs), t)

RECURSIVE Replay(_, _, _, _)
Replay(v, msgs, k, t) ==
    IF msgs = <<>> THEN v
    ELSE Replay(IF Head(msgs).to = k /\ Head(msgs).type = "update"
                THEN ReplayChanges(v, Head(msgs).changes, t) ELSE v,
                Tail(msgs), k, t)

BothApplied == ot.step = <<2, 2>>

\* C10, as stated: two concurrent changes, each valid against the base string,
\* give the same final string in either order of application.
C10_Converges ==
    BothApplied => ot.topic[1].value = ot.topic[2].value

\* two insertions at one position whose texts do not commute
SamePlaceInserts ==
    /\ ot.c[1].kind = "insert" /\ ot.c[2].kind = "insert"
    /\ ot.c[1].position = ot.c[2].position
    /\ ot.c[1].text \o ot.c[2].text # ot.c[2].text \o ot.c[1].text

\* C10, amended: two concurrent changes, each valid against the base string,
\* are both accepted in either order and give the same final string, unless
\* they are two insertions at the same position whose texts do not commute: of
\* those, the one applied second ends up in front of the one applied first.
C10_ConvergesButSamePlace ==
    BothApplied =>
        /\ ot.failed = <<FALSE, FALSE>>
        /\ ~SamePlaceInserts => ot.topic[1].value = ot.topic[2].value
        /\ SamePlaceInserts =>
              LET p == ot.c[1].position
              IN  /\ ot.topic[1].value =
                        Before(ot.base, p) \o ot.c[2].text \o ot.c[1].text \o After(ot.base, p)
                  /\ ot.topic[2].value =
                        Before(ot.base, p) \o ot.c[1].text \o ot.c[2].text \o After(ot.base, p)

\* C10 witness: an insertion inside the range a concurrent deletion removes,
\* with the same final string in both orders
C10_Witness ==
    /\ BothApplied /\ ot.failed = <<FALSE, FALSE>>
    /\ ot.c[1].kind = "delete" /\ Len(ot.c[1].text) >= 2
    /\ ot.c[2].kind = "insert" /\ ot.c[2].text # <<>>
    /\ ot.c[2].position > ot.c[1].position
    /\ ot.c[2].position < ot.c[1].position + Len(ot.c[1].text)
    /\ ot.topic[1].value = ot.topic[2].value

\* the last change applied, with the outcome of applying its inverse to the
\* value it returned
WentRound == topicval.last # <<>> /\ topicval.undone # <<>>
RoundTrips == {topicval.last[1]} \X {topicval.undone[1]}

\* C11, as stated: whenever apply(c) succeeded on a value v, applying
\* c.inverse() to the result succeeds and yields exactly v, for every change
\* kind, list inserts and pops at negative and out-of-range positions included.
C11_InverseRoundTrip ==
    WentRound =>
        \A rt \in RoundTrips : rt[2].ok /\ rt[2].value = rt[1].before

\* C11 on lists only: the inverse of a list insert or pop restores the list
C11_ListRoundTrip ==
    (WentRound /\ topicval.type = "list") =>
        \A rt \in RoundTrips : rt[2].ok /\ rt[2].value = rt[1].before

\* the set or change_value change that was just applied (nothing was applied
\* after it), and the ids that existed before it was: the client's and those
\* the generator had issued
JustSet ==
    IF topicval.last # <<>> /\ topicval.undone = <<>> /\ topicval.last[1].ok
       /\ topicval.last[1].submitted.kind \in {"set", "change_value"}
    THEN {topicval.last[1]} ELSE {}
MetValue(l) ==
    IF l.submitted.kind = "set" THEN l.before ELSE l.before[l.submitted.key]
IdsBefore(l) ==
    {[by |-> "client", n |-> 1]}
        \cup {[by |-> "server", n |-> k] : k \in 1 .. topicval.issued - 1}

\* C12: an applied SetChange or dict ChangeValueChange keeps the id it was
\* submitted with if and only if its recorded old_value equals the value it
\* met (the value of the key for change_value); otherwise it leaves apply with
\* a newly generated id, which differs from the submitted id and from every id
\* that existed before.
C12_StaleIdRule ==
    \A l \in JustSet :
        /\ (l.applied.id = l.submitted.id) <=> (l.submitted.old = <<MetValue(l)>>)
        /\ l.submitted.old # <<MetValue(l)>> =>
              /\ l.applied.id = GenerateId(topicval.issued - 1)
              /\ l.applied.id \notin IdsBefore(l) \cup {l.submitted.id}

\* C12 witness: a set change with a stale old_value and a change_value with the
\* right one were applied, the first left with a new id, the second kept its id
C12_Witness ==
    \E l \in JustSet :
        /\ l.submitted.kind = "change_value"
        /\ l.submitted.old = <<MetValue(l)>> /\ l.applied.id = l.submitted.id
        /\ Len(topicval.log) = 2 /\ topicval.log[1].kind = "set"
        /\ topicval.issued > MaxIssued

\* positions of the log: accepted changes of a kind on an item or a key
Accepted(kind, item, key) ==
    {i \in DOMAIN topicval.log :
        /\ topicval.log[i].kind = kind
        /\ topicval.log[i].item = item /\ topicval.log[i].key = key}
\* accepted set changes whose value has not the item, or not the key
SetWithout(item, key) ==
    {i \in DOMAIN topicval.log :
        /\ topicval.log[i].kind = "set"
        /\ IF topicval.type = "set"
           THEN \A p \in DOMAIN topicval.log[i].value : topicval.log[i].value[p] # item
           ELSE topicval.log[i].value[key] = Absent}
\* between any two positions of As there is a position of Bs
Separated(As, Bs) ==
    \A i \in As, j \in As : i < j => \E k \in Bs : i < k /\ k < j
\* the last submitted change was refused: it raised InvalidChangeError and the
\* value is the one it met
Refused(l) ==
    ~l.ok /\ l.error = "InvalidChangeError" /\ topicval.value = l.before
\* an append of a present item, a remove of an absent item, an add of a present
\* key and a pop of an absent key are refused
RefusesMisuse ==
    \A i \in DOMAIN topicval.last :
        LET l == topicval.last[i]
            c == l.submitted
        IN  /\ (c.kind = "append" /\ c.item \in {l.before[p] : p \in DOMAIN l.before})
                  => Refused(l)
            /\ (c.kind = "remove" /\ c.item \notin {l.before[p] : p \in DOMAIN l.before})
                  => Refused(l)
            /\ (c.kind = "add" /\ l.before[c.key] # Absent) => Refused(l)
            /\ (c.kind = "pop" /\ l.before[c.key] = Absent) => Refused(l)

\* C14, as stated: over any sequence of accepted changes (set changes included),
\* between two accepted appends of the same item there is an accepted remove of
\* it, and between two accepted adds of the same key an accepted pop of it;
\* appends of present items, removes of absent items, adds of present keys and
\* pops of absent keys fail with InvalidChange and leave the value unchanged.
C14_Uniqueness ==
    /\ topicval.type = "set" =>
          \A item \in Items :
              Separated(Accepted("append", item, "j"), Accepted("remove", item, "j"))
    /\ topicval.type = "dict" =>
          \A key \in Keys :
              Separated(Accepted("add", "x", key), Accepted("pop", "x", key))
    /\ RefusesMisuse

\* C14, amended: between two accepted appends of the same item there is an
\* accepted remove of it or an accepted set change whose value does not hold it,
\* and between two accepted adds of the same key an accepted pop of it or an
\* accepted set change whose value has not the key; the four misuses fail with
\* InvalidChange and leave the value unchanged.
C14_UniquenessOrSet ==
    /\ topicval.type = "set" =>
          \A item \in Items :
              Separated(Accepted("append", item, "j"),
                        Accepted("remove", item, "j") \cup SetWithout(item, "j"))
    /\ topicval.type = "dict" =>
          \A key \in Keys :
              Separated(Accepted("add", "x", key),
                        Accepted("pop", "x", key) \cup SetWithout("x", key))
    /\ RefusesMisuse

\* C14 witness: an item was appended, dropped by a set change and appended again
C14_Witness ==
    /\ topicval.type = "set" /\ Len(topicval.log) = MaxLog
    /\ topicval.log[1].kind = "append" /\ topicval.log[2].kind = "set"
    /\ topicval.log[3].kind = "append" /\ topicval.log[3].item = topicval.log[1].item
    /\ topicval.last[1].ok

\* the last submitted string change, the changes the topic had accepted after
\* the version it names, and the change the topic recorded for it
Submissions == {ot.last[i] : i \in DOMAIN ot.last}
Recorded13(l) == ot.topic.changes[Len(ot.topic.changes)]
AcceptedAfter(l) ==
    LET i == CHOOSE j \in DOMAIN l.pre.versions :
                 l.pre.versions[j] = l.submitted.topic_version
        k == Len(l.pre.versions) - i
    IN  SubSeq(l.pre.changes, Len(l.pre.changes) - k + 1, Len(l.pre.changes))
RECURSIVE Rewound(_, _)
Rewound(c, changes) ==
    IF changes = <<>> THEN c
    ELSE Rewound(IF c.kind = "insert" THEN InsertAdjust(c, changes[1])
                 ELSE DeleteAdjust(c, changes[1]), Tail(changes))

\* C13: a string change whose base version is the topic's current version is
\* applied with its id and position unchanged; one with an older recorded base
\* version is rewound through exactly the changes accepted after that version,
\* in acceptance order, takes the current version as its base and its id gets
\* the suffix _adjust; one with a base version the topic never recorded fails
\* and leaves the topic's value and version unchanged.
C13_VersionSync ==
    \A l \in Submissions :
        LET c == l.submitted
        IN  /\ c.topic_version = l.pre.version =>
                  /\ l.ok
                  /\ Recorded13(l).id = c.id /\ ~Recorded13(l).adjusted
                  /\ Recorded13(l).position = c.position
            /\ (c.topic_version # l.pre.version /\ KnownVersion(l.pre, c.topic_version)
                /\ l.ok) =>
                  /\ Recorded13(l) =
                        [Rewound(c, AcceptedAfter(l)) EXCEPT
                            !.topic_version = l.pre.version, !.adjusted = TRUE]
                  /\ ot.topic.version # <<c.id, FALSE>>
            /\ ~KnownVersion(l.pre, c.topic_version) =>
                  /\ ~l.ok
                  /\ ot.topic.value = l.pre.value /\ ot.topic.version = l.pre.version

\* C13 witness: a change composed on the initial string is accepted after two
\* others, moved by both of them
C13_Witness ==
    \E l \in Submissions :
        /\ l.ok /\ l.submitted.topic_version = InitVersion
        /\ Len(l.pre.changes) = 2
        /\ l.pre.changes[1].kind = "insert" /\ l.pre.changes[2].kind = "insert"
        /\ Recorded13(l).position = l.submitted.position + 2
        /\ Recorded13(l).adjusted

\* what each client did with the last change it received
LastOf(k) == {clients.c[k].last[i] : i \in DOMAIN clients.c[k].last}

\* C15: a client receives the init message of a topic before every update of
\* that topic, and no update brings a change that the init value (or an earlier
\* update) already contained: the changes kept in the buffer went to the earlier
\* subscribers before the client was added.
C15_InitBeforeUpdates ==
    \A k \in Clients : \A l \in LastOf(k) :
        l.type = "update" => (l.got # <<>> /\ l.change.no > l.got[1])

\* C15 witness: a change of the non-stateful topic waited in the buffer when a
\* second client subscribed; the first client got it as an update, the second
\* in its init value
C15_Witness ==
    \E k \in Clients, j \in Clients :
        \E l \in LastOf(k), m \in LastOf(j) :
            /\ l.type = "update" /\ l.change.topic = "n" /\ l.change.no = 1
            /\ m.type = "init" /\ m.change.topic = "n" /\ m.change.no = 1
            /\ m.change.value = l.change.value
            /\ clients.buffer = <<>> /\ clients.queue = <<>>

\* nothing is on its way: the server has read every message of the clients and
\* every message of the sending queue has reached its client
Quiescent ==
    /\ clients.queue = <<>>
    /\ \A k \in Clients : clients.up[k] = <<>>

LastUpdates(k) ==
    {l \in LastOf(k) : l.type = "update" /\ l.change.topic = "a"}

\* every subscriber receives the committed changes of the stateful topic one
\* after the other, none twice and none left out
OnceInOrder ==
    /\ \A k \in Clients : \A l \in LastUpdates(k) :
          l.got # <<>> /\ l.change.no = l.got[1] + 1
    /\ Quiescent =>
          \A k \in clients.subs["a"] : clients.c[k].got["a"] = <<clients.commits["a"]>>

WithPreviews(confirmed, path) ==
    IF path = <<>> THEN confirmed ELSE path[Len(path)].value

\* the clients that received the init message of the stateful topic
Initialised == {k \in Clients : clients.c[k].got["a"] # <<>>}

\* C18: an authoritative change with the id of the head of the preview path
\* pops exactly the head and leaves the displayed value as it is; any other
\* one clears the path and is applied. At all times after the init message the
\* displayed value is the value the server confirmed with the preview path
\* applied in order.
C18_PreviewHandling ==
    /\ [](\A k \in Initialised :
            clients.c[k].value["a"] = WithPreviews(clients.c[k].confirmed, clients.c[k].path))
    /\ [][\A k \in Clients :
            clients'.c[k].read # clients.c[k].read =>
              \A l \in {m \in {clients'.c[k].last[i] : i \in DOMAIN clients'.c[k].last} :
                           m.type # "reject" /\ m.change.topic = "a"} :
                IF clients.c[k].path # <<>> /\ clients.c[k].path[1].id = l.change.id
                THEN /\ l.did = "pop"
                     /\ clients'.c[k].path = Tail(clients.c[k].path)
                     /\ clients'.c[k].value = clients.c[k].value
                ELSE /\ l.did = "apply"
                     /\ clients'.c[k].path = <<>>
                     /\ clients'.c[k].value["a"] = l.change.value]_vars

\* C18 witness: the head of a preview path of two changes was confirmed and
\* popped; the client still displays the value of the remaining preview
C18_Witness ==
    \E k \in Clients : \E l \in LastOf(k) :
        /\ l.did = "pop" /\ l.type = "update"
        /\ Len(clients.c[k].path) = 1
        /\ clients.c[k].path[1].id.n = 2
        /\ clients.c[k].value["a"] # clients.c[k].confirmed

\* what client k has done with the message it has just handled, when that
\* message was a reject
JustRejected(k) ==
    IF clients'.c[k].read # clients.c[k].read
    THEN {l \in {clients'.c[k].last[i] : i \in DOMAIN clients'.c[k].last} : l.type = "reject"}
    ELSE {}

\* C19: a reject of the change at the head of the preview path undoes every
\* preview and clears the path, and the client displays the last value the
\* server confirmed; any other reject leaves path and displayed value as they
\* are; in neither case is anything sent to the server.
C19_RejectHandling ==
    [][\A k \in Clients : \A l \in JustRejected(k) :
          /\ clients'.up = clients.up
          /\ IF clients.c[k].path # <<>> /\ clients.c[k].path[1].id = l.change.id
             THEN /\ l.did = "undo"
                  /\ clients'.c[k].path = <<>>
                  /\ clients'.c[k].value["a"] = clients.c[k].confirmed
                  /\ clients'.c[k].confirmed = clients.c[k].confirmed
             ELSE /\ l.did = "ignore"
                  /\ clients'.c[k].path = clients.c[k].path
                  /\ clients'.c[k].value = clients.c[k].value]_vars

\* C19 witness: a client whose first change was confirmed has had its second
\* change rejected and displays the confirmed value again
C19_Witness ==
    \E k \in Clients : \E l \in LastOf(k) :
        /\ l.did = "undo" /\ l.change.id.n = 2
        /\ clients.c[k].made = 2 /\ clients.c[k].path = <<>>
        /\ clients.c[k].confirmed = 1 /\ clients.c[k].value["a"] = 1

\* a reject that does not match the head of a non-empty preview path is
\* reachable: the path stays
C19_IgnoredWithPath ==
    \E k \in Clients : \E l \in LastOf(k) :
        l.did = "ignore" /\ clients.c[k].path # <<>>

\* the threads that are inside a record scope
InScope == {t \in Threads : threads.at[t] \in {"body", "reentered"}}

\* what the lock does give: every change of a transition was made by the
\* thread that emitted it, transitions are emitted in the order in which the
\* lock was taken, only the thread that holds the lock appends to the changes
\* list, and recording goes with holding the lock
C20_LockedParts ==
    /\ [](\A i \in DOMAIN threads.emitted :
             /\ \A j \in DOMAIN threads.emitted[i].changes :
                   threads.emitted[i].changes[j] = threads.emitted[i].by
             /\ \A j \in DOMAIN threads.emitted : i < j =>
                   threads.emitted[i].no < threads.emitted[j].no)
    /\ [][(threads'.changes_list # threads.changes_list /\ threads'.changes_list # <<>>)
            => threads'.changes_list[Len(threads'.changes_list)] = threads'.owner]_vars
    /\ [](threads.is_recording <=> threads.owner # Nobody)

\* C20: record scopes of distinct threads are mutually exclusive; a thread that
\* calls record or apply_change while the scope of another thread is open
\* waits for the lock; the changes of a transition are all of the thread that
\* emitted it; no thread in a scope reads a value that another thread's open
\* scope has changed; transitions are emitted in the order of taking the lock.
C20_Serialized ==
    /\ [](Cardinality(InScope) <= 1)
    /\ [](threads.last.open => threads.last.what = "waits")
    /\ [](threads.last.what = "read" => ~threads.last.mid)
    /\ C20_LockedParts

\* two threads are inside a record scope at once, and the one that does not
\* hold the lock has read a topic the other one changed in its open scope
C20_TwoInScope ==
    /\ InScope = Threads
    /\ threads.last.what = "read" /\ threads.last.mid
    /\ threads.owner # threads.last.t

\* a thread's record raised while the scope of the other one was open
C20_RaisedNotWaited ==
    threads.last.what = "raised" /\ threads.last.open

\* a thread that called apply_change waited and then emitted its own transition
\* after the other thread's
C20_AppliedAfter ==
    /\ Len(threads.emitted) = 2
    /\ threads.emitted[1].by # threads.emitted[2].by
    /\ threads.emitted[1].changes = <<threads.emitted[1].by, threads.emitted[1].by>>

\* the changes lists handed to changes_callback by the scopes of the run, in
\* the order of the calls, one after the other
RECURSIVE Broadcast(_, _)
Broadcast(done, i) ==
    IF i > Len(done) THEN <<>> ELSE done[i].cl \o Broadcast(done, i + 1)

\* C21: when every record scope of a run has exited without an exception
\* (rollbacks that were caught included), the changes lists handed to
\* changes_callback, applied in order to the topics' values before the run,
\* give the topics' values after the run; and so does the list of each
\* scope, applied to the values at its entry.
C21_ReplayEquivalence ==
    /\ \A s \in Scopes :
          ~Failed(s) => \A t \in Topics : ReplayChanges(s.entry[t], s.cl, t) = s.exit[t]
    /\ (~sm.rec /\ sm.raised = None /\ \A s \in Scopes : ~Failed(s)) =>
          \A t \in Topics :
              ReplayChanges(sm.op.before[t], Broadcast(sm.done, 1), t) = sm.val[t]

\* C21 witness: a run of two scopes that both exited cleanly, one of them after
\* a rollback that was caught, and that changed a topic
C21_Witness ==
    /\ ~sm.rec /\ sm.raised = None /\ Len(sm.done) >= 2
    /\ \A s \in Scopes : ~Failed(s)
    /\ \E s \in Scopes : Len(s.reverted) >= 1 /\ s.exit # s.entry
    /\ sm.val # sm.op.before

\* the (topic, value) pairs of a list of changes, and a list backwards
Pairs(chs) == [i \in DOMAIN chs |-> <<chs[i].topic, chs[i].value>>]
Backwards(s) == [i \in DOMAIN s |-> s[Len(s) + 1 - i]]

\* the last operation was undo or redo of a held transition
Undone == ~sm.rec /\ sm.op.kind = "undo" /\ sm.op.idx \in DOMAIN trans
Redone22 == ~sm.rec /\ sm.op.kind = "redo" /\ sm.op.idx \in DOMAIN trans

\* what undo(T) and redo(T) are to apply: the inverses of T's changes, last
\* first, and T's changes
InversesOf(T) == Backwards([i \in DOMAIN T.changes |-> <<T.changes[i].topic, T.changes[i].old>>])
ChangesOf(T) == Pairs(T.changes)

\* the entries of a scope's changes list that are nodes of its tree when they
\* are applied (the changes undo and redo apply themselves)
RecordedIn(s) ==
    SelectSeq(s.cl, LAMBDA c :
        c.inv = 0 /\ \E i \in DOMAIN s.applied : s.applied[i].oid = c.oid /\ s.applied[i].recorded)

C22_ListenerInUndo ==
    /\ Undone /\ sm.raised = None
    /\ Len(sm.done[1].cl) > Len(trans[sm.op.idx].changes)

\* the changes now kept for the next flush
Kept == NosOf(KeptAll(ub.keys, ub.later))

\* the call that has just returned
JustDid(op) == ub'.tick # ub.tick /\ ub'.last.op = op

\* C23: every change handed to add_changes is sent once, or kept for the next
\* flush, or dropped because its topic is not (or no longer) there, and never
\* two of these; add_changes sends the changes of stateful topics at once, in
\* order and with the caller's action id, and sends no other change; a flush
\* sends the per-topic merge of the changes kept, with the id of the clock,
\* and leaves nothing kept.
C23_BufferDelivery ==
    /\ [](\A no \in 1 .. MaxBuffered :
            /\ ub.sends[no] <= 1
            /\ no < ub.next =>
                  (IF ub.sends[no] = 1 THEN 1 ELSE 0) + (IF no \in Kept THEN 1 ELSE 0)
                      + (IF no \in ub.gone THEN 1 ELSE 0) = 1
            /\ no >= ub.next => ub.sends[no] = 0 /\ no \notin Kept /\ no \notin ub.gone)
    /\ [](\A t \in BufTopics : \A i \in DOMAIN ub.later[t] :
            ub.later[t][i].topic = t /\ ~BufStateful(t) /\ t \in ub.has)
    /\ [][JustDid("add") =>
            /\ ub'.last.sent = SelectSeq(ub'.last.input,
                                   LAMBDA c : c.topic \in ub.has /\ BufStateful(c.topic))
            /\ ub'.last.action_id \in ActionIds
            /\ \A t \in BufTopics :
                  ub'.later[t] = ub.later[t] \o
                      SelectSeq(ub'.last.input,
                          LAMBDA c : c.topic = t /\ t \in ub.has /\ ~BufStateful(t))]_vars
    /\ [][JustDid("flush") =>
            /\ ub'.last.sent = MergedAll(ub.keys, ub.later)
            /\ ub'.last.action_id = "clock"
            /\ \A t \in BufTopics : ub'.later[t] = <<>>
            /\ \A no \in 1 .. MaxBuffered :
                  ub'.sends[no] = ub.sends[no] + (IF no \in Kept THEN 1 ELSE 0)]_vars
    /\ [][JustDid("remove") => ub'.last.sent = <<>> /\ ub'.sends = ub.sends]_vars

\* C23 witness: a flush has sent the merge of three changes kept for the string
\* topic (a SetChange overwritten by a later one) after a change of the
\* stateful topic was sent at once
C23_Witness ==
    /\ ub.last.op = "flush"
    /\ Len(ub.last.input) = 3 /\ Len(ub.last.sent) = 1
    /\ ub.last.sent[1].topic = "m" /\ ub.last.sent[1].no # ub.last.sent[1].id
    /\ \E no \in 1 .. MaxBuffered : ub.sends[no] = 1 /\ no \notin NosOf(ub.last.input)
    /\ Kept = {}

\* changes kept for a topic were dropped when the topic was removed
C23_Dropped ==
    /\ ub.last.op = "remove" /\ Len(ub.last.input) = 2
    /\ NosOf(ub.last.input) \subseteq ub.gone

\* the subscriptions of the clients other than k
OthersSubs(subs, k) == [t \in ConnTopics |-> subs[t] \ {k}]

\* what _cleanup_client does give: a client it was called for is in no
\* subscription set and no broadcast enqueues a message for it afterwards; the
\* step that meets a closed connection leaves the topics, the queue's other
\* messages and the other clients' subscriptions as they are
C24_CleanupParts ==
    /\ [](\A k \in net.cleaned : \A t \in ConnTopics : k \notin net.subs[t])
    /\ [](net.last.op = "broadcast" =>
             \A i \in DOMAIN net.last.queued : net.last.queued[i].to \notin net.cleaned)
    /\ [][\A k \in Clients :
            (k \in net'.seen /\ k \notin net.seen) =>
               /\ net'.val = net.val
               /\ OthersSubs(net'.subs, k) = OthersSubs(net.subs, k)]_vars
    /\ [](net.cleaned \subseteq net.seen)

\* C24: once the server has met the closed connection of a client, reading or
\* writing, the client is in no subscription set and no later broadcast
\* enqueues a message for it; the topics and the other clients' subscriptions
\* are as the disconnect found them.
C24_Disconnect ==
    /\ [](\A k \in net.seen : \A t \in ConnTopics : k \notin net.subs[t])
    /\ [](net.last.op = "broadcast" =>
             \A i \in DOMAIN net.last.queued : net.last.queued[i].to \notin net.seen)
    /\ C24_CleanupParts

\* the handler of a client returned after a normal closure, the client is
\* still subscribed, and a broadcast has queued a message for it
C24_StillSubscribed ==
    \E k \in Clients :
        /\ net.reader[k] = "returned" /\ net.ws[k] = "closed_ok" /\ k \notin net.cleaned
        /\ k \in net.subs["a"]
        /\ net.last.op = "broadcast"
        /\ \E i \in DOMAIN net.last.queued : net.last.queued[i].to = k

\* a client was cleaned up after a failed send while the other one keeps its
\* subscription
C24_CleanedByRun ==
    \E k \in Clients, j \in Clients :
        /\ k # j /\ net.last.op = "send" /\ net.last.k = k /\ k \in net.cleaned
        /\ net.reader[k] = "reading"
        /\ j \in net.subs["a"] /\ j \in net.subs["b"]

\* the changes of a list that are no inverses, by their object ids, in order
ForwardIds(cl) ==
    LET fwd == SelectSeq(cl, LAMBDA c : c.inv = 0)
    IN  [i \in DOMAIN fwd |-> fwd[i].oid]

C25_OnlyEvents ==
    \E s \in Scopes : ~Failed(s) /\ s.emits # <<>> /\ s.applied = <<>> /\ ~s.cb

\* the scope that is open, as its exit would show it
OpenScope == Summary(sm, sm.exc, <<>>, FALSE)

\* the manual hub of a recorded change failed in scope s
ManualFailed(s) == s.critat # <<>>

\* C26: once a manual listener has raised on a recorded change, the error
\* state is CRITICAL as long as the scope is open, no inverse change is applied
\* and no recovery runs from then to the scope's exit, and the exception
\* leaves the scope unless a try/except of the user's code caught it.
C26_ManualFailure ==
    /\ (sm.rec /\ ManualFailed(OpenScope)) => sm.err = "CRITICAL"
    /\ \A s \in Scopes \cup (IF sm.rec THEN {OpenScope} ELSE {}) :
          ManualFailed(s) =>
             /\ s.crit
             /\ Len(s.reverted) = s.critat[1]
             /\ s.recov = s.critat[2]
    /\ \A s \in Scopes : (ManualFailed(s) /\ ~s.critcaught) => Failed(s)

\* C26 witness: a scope in which a change had been applied and recorded, then
\* a manual listener raised, and the scope failed with the changes in place
C26_Witness ==
    \E s \in Scopes :
        /\ ManualFailed(s) /\ ~s.critcaught /\ s.exc = "ListenerError"
        /\ Len(s.applied) >= 2 /\ s.reverted = <<>> /\ s.exit # s.entry

\* an auto listener caught the manual listener's exception and the scope ended
\* cleanly in the CRITICAL state
C26_CaughtByListener ==
    \E s \in Scopes : ManualFailed(s) /\ s.critcaught /\ ~Failed(s)

\* a recovery of scope s failed
RecoveryFailed(s) == s.failedat # <<>>

\* C27: once an inverse change has failed during recovery, the error state is
\* CRITICAL as long as the scope is open and clear_subtree is not called again
\* for the scope, by an enclosing apply_change or by the record scope.
C27_NoFurtherRecovery ==
    /\ (sm.rec /\ RecoveryFailed(OpenScope)) => sm.err = "CRITICAL"
    /\ \A s \in Scopes : RecoveryFailed(s) => s.recov = s.failedat[1]

\* a scope whose first recovery failed, in an apply_change, and whose exit
\* called clear_subtree once more on a tree that still held the change
C27_RecoveredAgain ==
    \E s \in Scopes :
        /\ RecoveryFailed(s) /\ s.failedat[1] = 1 /\ s.recov = 2
        /\ Failed(s) /\ s.exit # s.entry

\* the body caught the exception of the failed recovery and goes on in a scope
\* whose error state is NO_ERROR
C27_NoErrorAfterFailure ==
    sm.rec /\ RecoveryFailed(OpenScope) /\ sm.err = "NO_ERROR" /\ sm.exc = None

\* how often the manual hub of topic t called a listener in scope s
ManualFirings(s, t) ==
    Cardinality({i \in DOMAIN s.fired : ~s.fired[i].auto /\ s.fired[i].topic = t})

\* the value changes committed to topic t in scope s: all of them, and those
\* that went through StateMachine.apply_change
CommittedOn(s, t) == Cardinality({i \in DOMAIN s.cl : s.cl[i].topic = t})
ProposedOn(s, t) == Cardinality({i \in DOMAIN s.cl : s.cl[i].topic = t /\ s.cl[i].inv = 0})

\* the topics whose manual hub has one listener
ManualTopics == {t \in Topics : Len(cfg.manual[t]) = 1}

\* C28: the manual listener of a topic is called for every value change
\* committed to the topic in a scope: forward changes, the changes undo and
\* redo apply, the inverse changes of a rollback, and changes made from inside
\* a listener.
C28_ManualAlways ==
    \A s \in Scopes : \A t \in ManualTopics : ManualFirings(s, t) = CommittedOn(s, t)

\* what holds: the manual listener is called once for every change that goes
\* through StateMachine.apply_change (forward, undo, redo, from inside a
\* listener), and never for the inverse changes of a rollback
C28_ManualOnApplyChange ==
    \A s \in Scopes : \A t \in ManualTopics : ManualFirings(s, t) = ProposedOn(s, t)

\* a scope that rolled back a change of a topic with a manual listener: the
\* listener saw the change and not its inverse
C28_RollbackUnnotified ==
    \E s \in Scopes : \E t \in ManualTopics :
        /\ Failed(s) /\ s.exit = s.entry
        /\ CommittedOn(s, t) = 2 /\ ManualFirings(s, t) = 1

\* an undo whose inverse change reached the manual listener
C28_UndoNotified ==
    \E s \in Scopes : \E t \in ManualTopics :
        s.args.phase = "UNDOING" /\ ManualFirings(s, t) >= 1

\* the applied changes of scope s that were proposed on a non-stateful topic
\* or in MANUAL mode, by their object ids
OutsideTree(s) ==
    {s.applied[i].oid : i \in {j \in DOMAIN s.applied :
        \/ s.applied[j].mode = "MANUAL"
        \/ \E k \in DOMAIN s.cl : s.cl[k].oid = s.applied[j].oid /\ ~IsStateful[s.cl[k].topic]}}

\* the object ids of the changes of a transition
IdsOf(tr) == {tr[i].oid : i \in DOMAIN tr}

\* C29: a change to a non-stateful topic or applied in MANUAL mode is in the
\* flat changes list, with its value committed, and is no node of the
\* transition tree: no Transition holds it (so undo and redo, which apply a
\* Transition's changes, do not re-apply it), and a scope with only such
\* changes emits no Transition.
C29_NeverInTree ==
    /\ \A s \in Scopes :
          /\ \A x \in OutsideTree(s) : FwdPos(s, x) # {} /\ x \notin IdsOf(s.tr)
          /\ (\A i \in DOMAIN s.applied : s.applied[i].oid \in OutsideTree(s)) =>
                (s.tr = <<>> /\ ~s.emitted)
          /\ ~Failed(s) => \A t \in Topics : ReplayChanges(s.entry[t], s.cl, t) = s.exit[t]
    /\ sm.rec => \A i \in DOMAIN sm.nodes :
          i # RootId => sm.nodes[i].change.oid \notin OutsideTree(OpenScope)

\* C29 witness: a clean scope whose changes were a recorded one and, from its
\* manual listener, unrecorded ones: the transition holds the first only
C29_Witness ==
    \E s \in Scopes :
        /\ ~Failed(s) /\ s.emitted /\ Len(s.tr) = 1
        /\ Cardinality(OutsideTree(s)) >= 2 /\ Len(s.cl) >= 3

\* a clean scope that changed the non-stateful topic only: no transition
C29_NothingEmitted ==
    \E s \in Scopes :
        ~Failed(s) /\ s.cl # <<>> /\ ~s.emitted /\ s.exit["n"] # s.entry["n"]

\* C30: the auto hub of a topic calls no listener for a change to a
\* non-stateful topic or for a change applied in MANUAL mode: every call of an
\* auto listener is for a recorded change, notified in AUTO mode.
C30_AutoSkipped ==
    \A s \in Scopes : \A i \in DOMAIN s.fired : s.fired[i].auto => s.fired[i].mode = "AUTO"

\* a change to the non-stateful topic called the topic's auto listener, whose
\* change of another topic is in the scope's changes list
C30_StatelessCascade ==
    \E s \in Scopes :
        /\ \E i \in DOMAIN s.fired : s.fired[i].auto /\ s.fired[i].topic = "n"
        /\ Len(s.cl) = 2 /\ s.cl[1].topic = "n" /\ s.cl[2].topic = "c"

\* during an undo, a change made by a manual listener called an auto listener
C30_CascadeInUndo ==
    \E s \in Scopes : \E i \in DOMAIN s.fired :
        s.fired[i].auto /\ s.fired[i].phase = "UNDOING" /\ s.fired[i].mode = "MANUAL"

\* the tasks offered in the current run while the phase was one of ps
OfferedIn(ps) == {sm.offers[i].tid : i \in {j \in DOMAIN sm.offers : sm.offers[j].phase \in ps}}

\* C31: a task offered while the phase is IDLE has run when
\* do_after_transition returns; a task offered during undo or redo is not run
\* in that run and is in no queue when the run is over, so no later scope runs
\* it; an undo or redo runs no task at all.
C31_TaskByPhase ==
    /\ \A tid \in OfferedIn({"IDLE"}) : Runs(tid) = 1
    /\ \A tid \in OfferedIn({"UNDOING", "REDOING"}) : Runs(tid) = 0
    /\ sm.op.kind \in {"undo", "redo"} =>
          /\ sm.taskruns = <<>>
          /\ \A i \in DOMAIN sm.lists : sm.lists[i] = <<>>
          /\ \A i \in DOMAIN sm.offers : sm.offers[i].phase = sm.done[1].args.phase

\* C31 witness: an undo during which listeners offered two tasks, none of which ran
C31_Witness ==
    /\ sm.op.kind = "undo" /\ sm.raised = None
    /\ Cardinality(OfferedIn({"UNDOING"})) >= 2 /\ sm.taskruns = <<>>
    /\ Len(sm.done) = 1

\* a task offered outside any scope ran at once, in a scope of its own
C31_RanAtOnce ==
    /\ sm.op.kind = "offer" /\ 1 \in OfferedIn({"IDLE"}) /\ Runs(1) = 1
    /\ sm.done # <<>> /\ sm.val # sm.op.before

\* two concurrent deletes
TwoDeletes == ot.c[1].kind = "delete" /\ ot.c[2].kind = "delete"

\* the places of the base string a delete composed against it removes
RangeOf(c) == {i \in 1 .. Len(ot.base) : c.position < i /\ i <= c.position + Len(c.text)}

\* the string without the characters at the places in gone
RECURSIVE Without(_, _, _)
Without(string, gone, i) ==
    IF i > Len(string) THEN <<>>
    ELSE (IF i \in gone THEN <<>> ELSE <<string[i]>>) \o Without(string, gone, i + 1)

\* topic k's second change as the client composed it, and as the topic applied it
SecondOf(k) == ot.c[IF k = 1 THEN 2 ELSE 1]
FirstOf(k) == ot.c[k]
RewoundOf(k) == ot.topic[k].changes[2]

\* C32: two deletes composed against the same version, each valid against the
\* base string, are both accepted in either order and leave the base string
\* without the union of their ranges; the rewound second delete removes what
\* the first left of its range, from the smaller of the two starts when the
\* ranges overlap.
C32_TwoDeletes ==
    (BothApplied /\ TwoDeletes) =>
        /\ ot.failed = <<FALSE, FALSE>>
        /\ \A k \in {1, 2} :
              /\ ot.topic[k].value = Without(ot.base, RangeOf(ot.c[1]) \cup RangeOf(ot.c[2]), 1)
              /\ Len(RewoundOf(k).text) =
                    Cardinality(RangeOf(SecondOf(k)) \ RangeOf(FirstOf(k)))
              /\ RangeOf(FirstOf(k)) \cap RangeOf(SecondOf(k)) # {} =>
                    RewoundOf(k).position = Min(FirstOf(k).position, SecondOf(k).position)

\* C32 witness: two deletes whose ranges overlap in part, applied in both orders
C32_Witness ==
    /\ BothApplied /\ TwoDeletes /\ ot.failed = <<FALSE, FALSE>>
    /\ RangeOf(ot.c[1]) \cap RangeOf(ot.c[2]) # {}
    /\ RangeOf(ot.c[1]) \ RangeOf(ot.c[2]) # {}
    /\ RangeOf(ot.c[2]) \ RangeOf(ot.c[1]) # {}
    /\ ot.topic[1].value = <<>> /\ ot.topic[2].value = <<>>

\* a concurrent insert and delete: which of the two changes is which
InsertAndDelete == {ot.c[1].kind, ot.c[2].kind} = {"insert", "delete"}
TheInsert == IF ot.c[1].kind = "insert" THEN ot.c[1] ELSE ot.c[2]
TheDelete == IF ot.c[1].kind = "delete" THEN ot.c[1] ELSE ot.c[2]

\* the insert position lies strictly inside the deleted range
StrictlyInside ==
    /\ TheDelete.position < TheInsert.position
    /\ TheInsert.position < TheDelete.position + Len(TheDelete.text)

\* the base string without the deleted range, with the insertion where the
\* rest of the base string puts it
RangeRemovedInsertKept ==
    LET gone == RangeOf(TheDelete)
        p == TheInsert.position
    IN  Without(Before(ot.base, p), gone, 1) \o TheInsert.text
            \o Without(ot.base, gone \cup (1 .. p), 1)

\* C33: a concurrent insert at p and delete of [q, q+L), both valid against the
\* base string, are accepted in either order; with p strictly inside the range
\* both orders give the base string without the range and without the
\* inserted text, otherwise both give the base string without the range and
\* with the whole insertion at its place.
C33_InsertAndDelete ==
    (BothApplied /\ InsertAndDelete) =>
        /\ ot.failed = <<FALSE, FALSE>>
        /\ \A k \in {1, 2} :
              ot.topic[k].value = IF StrictlyInside
                                  THEN Without(ot.base, RangeOf(TheDelete), 1)
                                  ELSE RangeRemovedInsertKept

\* C33 witness: an insert strictly inside the deleted range, both orders done,
\* the inserted text gone
C33_Witness ==
    /\ BothApplied /\ InsertAndDelete /\ StrictlyInside /\ TheInsert.text # <<>>
    /\ ot.failed = <<FALSE, FALSE>>
    /\ ot.topic[1].value = ot.topic[2].value /\ Len(ot.topic[1].value) = 1

\* an insert at the end of the deleted range, kept in both orders
C33_InsertAtEnd ==
    /\ BothApplied /\ InsertAndDelete /\ TheInsert.text # <<>> /\ TheDelete.text # <<>>
    /\ TheInsert.position = TheDelete.position + Len(TheDelete.text)
    /\ ot.topic[1].value = ot.topic[2].value
    /\ Len(ot.topic[1].value) = Len(ot.base) - Len(TheDelete.text) + 1

\* the places of the set changes in a list of changes
SetsIn(changes) == {i \in DOMAIN changes : changes[i].kind = "set"}
LastSetIn(changes) == CHOOSE i \in SetsIn(changes) : \A j \in SetsIn(changes) : j <= i

\* C34: merge_changes of a string or list topic returns at most one set change;
\* when the input has a set, the result is one set change with the value and
\* id of the input's last set, followed by the input's changes after that
\* set, in order; when it has none, the result is the input; and the result
\* applied to a value gives what the input, applied in order, gives.
C34_Merge ==
    ub.called =>
        /\ Cardinality(SetsIn(ub.merged)) <= 1
        /\ SetsIn(ub.input) = {} => ub.merged = ub.input
        /\ SetsIn(ub.input) # {} =>
              LET k == LastSetIn(ub.input)
              IN  /\ ub.merged # <<>>
                  /\ ub.merged[1].kind = "set"
                  /\ ub.merged[1].value = ub.input[k].value
                  /\ ub.merged[1].id = ub.input[k].id
                  /\ Tail(ub.merged) = SubSeq(ub.input, k + 1, Len(ub.input))
        /\ MApplyAll(Valid(ub.base), ub.merged) = Valid(ub.cur)
        /\ MApplyAll(Valid(ub.base), ub.input) = Valid(ub.cur)

\* C34 witness: a set, an insert, a second set and a delete were merged into
\* the second set and the delete
C34_Witness ==
    /\ ub.called /\ Len(ub.input) = 3 /\ Cardinality(SetsIn(ub.input)) = 2
    /\ ub.input[2].kind = "set" /\ ub.input[3].kind = "delete"
    /\ Len(ub.merged) = 2 /\ ub.merged[1].id = 2

\* a set after an insert and a delete: only the set is left
C34_SetOverwrites ==
    /\ ub.called /\ Len(ub.input) = 3 /\ SetsIn(ub.input) = {3}
    /\ Len(ub.merged) = 1 /\ ub.type = "list"

\* a scope of the run has exited and its caller has the control again
Exited == sm.done # <<>> /\ (~sm.rec \/ sm.raised # None)

\* C35: once a non-nested record scope has exited, however it did, the machine
\* is not recording, its phase is IDLE, its changes list and its queue of
\* after-transition tasks are empty, and record() can be called again.
C35_CleanAfterExit ==
    Exited =>
        /\ ~sm.rec /\ sm.phase = "IDLE" /\ sm.cl = <<>>
        /\ sm.lists[sm.tref] = <<>>
        /\ RecordNested(sm, FALSE).exc = None
        /\ sm.last.kind = "again" => sm.last.exc = None

\* what holds: a scope whose changes_callback did not raise leaves the machine
\* not recording, IDLE and with an empty changes list, whatever else raised,
\* and record() can be called again; the task queue is empty when no
\* exception reached the caller
C35_CleanUnlessCallback ==
    (Exited /\ ~(sm.cbfail = "changes" /\ sm.raised = "CallbackError")) =>
        /\ ~sm.rec /\ sm.phase = "IDLE" /\ sm.cl = <<>>
        /\ RecordNested(sm, FALSE).exc = None
        /\ sm.raised = None => sm.lists[sm.tref] = <<>>

\* changes_callback raised: the scope has exited, the machine is still
\* recording in phase FORWARDING, and the next record() raised RuntimeError
C35_StillRecording ==
    /\ StillRecording /\ sm.phase = "FORWARDING" /\ sm.cl # <<>>
    /\ sm.last.kind = "again" /\ sm.last.exc = "RuntimeError"

\* transition_callback raised: the exception reached the caller of a scope
\* that was cleaned up, its changes in place
C35_TransitionCallbackRaised ==
    /\ ~sm.rec /\ sm.raised = "CallbackError" /\ sm.cbfail = "transition"
    /\ sm.phase = "IDLE" /\ sm.val # sm.op.before

\* the names for which the meta-topic and the machine disagree
Disagree == {n \in TopicNames : ub.meta[n] # ub.state[n]}

\* C36: after any sequence of add_topic and remove_topic calls, client
\* actions on the meta-topic, failed and rolled back ones included, and undo
\* and redo of their transitions, a name is a key of the meta-topic exactly
\* if the machine has a topic of that name, of the type the entry records.
C36_TopicListConsistent == ub.kind = "topics" => Disagree = {}

\* what holds: the two agree as long as no scope that had applied a change
\* was rolled back
C36_ConsistentUnlessRolledBack ==
    (ub.kind = "topics" /\ ~ub.rolled) => Disagree = {}

\* an action added an entry and failed: the entry is gone and the machine
\* has the topic
C36_TopicWithoutEntry ==
    /\ ub.kind = "topics" /\ ub.last = "action" /\ ub.exc = "InvalidChange"
    /\ \E n \in TopicNames : ub.meta[n] = NoTopic /\ ub.state[n] # NoTopic

\* an action removed an entry and failed: the entry is back and the machine
\* has no such topic
C36_EntryWithoutTopic ==
    /\ ub.kind = "topics" /\ ub.last = "action" /\ ub.exc = "InvalidChange"
    /\ \E n \in TopicNames : ub.meta[n] # NoTopic /\ ub.state[n] = NoTopic

\* transitions of the meta-topic undone and redone, the two in agreement
C36_UndoneInAgreement ==
    /\ ub.kind = "topics" /\ ~ub.rolled /\ ub.last = "undo" /\ ub.exc = None
    /\ \E n \in TopicNames : ub.meta[n] = NoTopic
    /\ \E n \in TopicNames : ub.meta[n] # NoTopic

\* C37: a string insert or delete that is valid on the string the topic held
\* at the change's base version applies, once rewound through the changes
\* accepted since, to the current string: the topic accepts it.
C37_RewoundIsValid ==
    \A l \in Submissions :
        (l.submitted.kind # "set" /\ KnownVersion(l.pre, l.submitted.topic_version))
            => l.ok

\* C37 witness: a delete of some text, composed before a set and an insert
\* that the topic accepted since, is accepted; so is an insert composed on
\* the string of the initial version
C37_Witness ==
    \E l \in Submissions :
        /\ l.ok /\ l.submitted.kind = "delete" /\ l.submitted.text # <<>>
        /\ l.submitted.topic_version = InitVersion
        /\ Len(l.pre.changes) = 2
        /\ l.pre.changes[1].kind = "set" /\ l.pre.changes[2].kind = "insert"
        /\ ot.topic.value = l.pre.value

\* an insert at the end of the initial string lands at the beginning of the
\* string a set put in its place
C37_InsertAfterSet ==
    \E l \in Submissions :
        /\ l.ok /\ l.submitted.kind = "insert" /\ l.submitted.position > 0
        /\ l.submitted.topic_version = InitVersion
        /\ Len(l.pre.changes) = 1 /\ l.pre.changes[1].kind = "set"
        /\ Len(l.pre.value) > 0
        /\ ot.topic.value = l.submitted.text \o l.pre.value

\* the transitions of a history that are not undone, in their order
RECURSIVE NotUndone(_, _)
NotUndone(list, undone) ==
    IF list = <<>> THEN <<>>
    ELSE IF Head(list) \in undone THEN NotUndone(Tail(list), undone)
    ELSE <<Head(list)>> \o NotUndone(Tail(list), undone)

\* the four parts of the claim, of the manager as it is and of its last call
PointerInRange == ub.current_ptr \in -1 .. Len(ub.history) - 1
NoOpAtTheEnds ==
    /\ (ub.last.op = "undo" /\ ub.last.current_ptr = -1) =>
           /\ ub.last.calls = <<>>
           /\ ub.history = ub.last.history /\ ub.current_ptr = ub.last.current_ptr
    /\ (ub.last.op = "redo" /\ ub.last.undone = {}) =>
           /\ ub.last.calls = <<>>
           /\ ub.history = ub.last.history /\ ub.current_ptr = ub.last.current_ptr
DiscardsTheUndone ==
    ub.last.op = "add" =>
        /\ ub.history = Append(NotUndone(ub.last.history, ub.last.undone), ub.added)
        /\ Len(ub.history) = Len(ub.last.history) - Cardinality(ub.last.undone) + 1
        /\ ub.current_ptr = Len(ub.history) - 1

\* C38: after any sequence of add_transition, undo and redo the pointer is
\* within -1 .. len(history) - 1; undo with nothing left to undo and redo with
\* nothing undone call nothing on the machine; no transition is undone twice
\* without a redo in between; add_transition after k undos discards exactly
\* the k undone transitions before it appends the new one.
C38_HistoryManager ==
    ub.kind = "manager" =>
        /\ PointerInRange
        /\ NoOpAtTheEnds
        /\ ~ub.twice
        /\ DiscardsTheUndone

\* what holds: the four parts, of the manager of the topicsync package
C38_TopicsyncManager ==
    (ub.kind = "manager" /\ ub.package = "topicsync") =>
        /\ PointerInRange
        /\ NoOpAtTheEnds
        /\ ~ub.twice
        /\ DiscardsTheUndone

\* the manager of the chatroom package, undo called once more than there are
\* transitions: the last transition is undone a second time and the pointer
\* is -2
C38_UndoneTwice ==
    /\ ub.kind = "manager" /\ ub.package = "chatroom"
    /\ ub.last.op = "undo" /\ ub.last.current_ptr = -1
    /\ ub.last.calls # <<>> /\ ub.twice /\ ub.current_ptr = -2

\* the manager of the chatroom package, add_transition after one undo too
\* many: the transitions kept are not those that were not undone
C38_AddDropsWrong ==
    /\ ub.kind = "manager" /\ ub.package = "chatroom"
    /\ ub.last.op = "add" /\ ub.last.current_ptr < -1
    /\ ~DiscardsTheUndone

\* the manager of the topicsync package: add_transition after two undos
\* dropped the two undone transitions
C38_TwoDiscarded ==
    /\ ub.kind = "manager" /\ ub.package = "topicsync"
    /\ ub.last.op = "add" /\ Cardinality(ub.last.undone) = 2
    /\ Len(ub.last.history) = 2 /\ ub.history = <<3>>

\* C39: once a topic has been removed through the topic list, none of its
\* changes that the buffer held is ever sent, a change of it that arrives
\* later is ignored (neither sent nor kept), and no flush looks up a topic
\* that is not there: no flush fails.
C39_RemovedTopic ==
    /\ [](\A no \in ub.gone : ub.sends[no] = 0 /\ no \notin Kept)
    /\ [](\A i \in DOMAIN ub.keys : ub.keys[i] \in ub.has)
    /\ [](~ub.failed)
    /\ [][JustDid("remove") =>
            /\ NosOf(KeptAll(ub.keys, ub.later)) \ NosOf(KeptAll(ub'.keys, ub'.later))
                   = NosOf(ub'.last.input)
            /\ NosOf(ub'.last.input) \subseteq ub'.gone]_vars
    /\ [][JustDid("add") =>
            \A i \in DOMAIN ub'.last.input :
                ub'.last.input[i].topic \notin ub.has =>
                    /\ ub'.last.input[i].no \in ub'.gone
                    /\ ub'.last.input[i].no \notin NosOf(ub'.last.sent)
                    /\ ub'.later[ub'.last.input[i].topic]
                           = ub.later[ub'.last.input[i].topic]]_vars

\* C39 witness: the string topic was removed with a change kept for it, a
\* change of it that came later was ignored, and a flush has sent what was
\* kept for the other topic
C39_Witness ==
    /\ ub.last.op = "flush" /\ ub.last.sent # <<>> /\ ~ub.failed
    /\ "m" \notin ub.has /\ Cardinality(ub.gone) = 2
    /\ \A i \in DOMAIN ub.last.sent : ub.last.sent[i].topic = "n"
    /\ \A no \in ub.gone : ub.sends[no] = 0

\* the recursion of a run was cut by the interpreter
CutShort == sm.raised = "RecursionError"

\* C40: with listeners whose dependency graph is acyclic, each proposing
\* finitely many changes, every apply_change and every record scope, with
\* its rollback and its after-transition tasks, terminates, and the machine
\* returns to phase IDLE.
C40_Terminates ==
    /\ [](Acyclic => ~CutShort)
    /\ [](~sm.rec => sm.phase = "IDLE")
    /\ (sm.rec ~> (~sm.rec /\ sm.phase = "IDLE"))

\* what holds: the machine returns to IDLE after every scope, and a run is
\* cut short only when the loop over the queue ran a task a second time
C40_TerminatesButTasks ==
    /\ CutShort => \E tid \in 1 .. sm.ntask : Runs(tid) > 1
    /\ ~sm.rec => sm.phase = "IDLE"

\* two tasks queued by the listener of one topic set another topic to two
\* values: each runs in a scope whose cleanup runs the other, without end
C40_TasksWithoutEnd ==
    /\ Acyclic /\ CutShort /\ ~sm.rec /\ sm.phase = "IDLE"
    /\ Len(sm.lists[sm.tref]) = 2
    /\ sm.lists[sm.tref][1].topic = sm.lists[sm.tref][2].topic
    /\ sm.lists[sm.tref][1].value # sm.lists[sm.tref][2].value

\* a cascade over three topics and its rollback ended by themselves
C40_CascadeEnded ==
    /\ Acyclic /\ ~CutShort /\ ~sm.rec /\ sm.phase = "IDLE"
    /\ \E s \in Scopes : Failed(s) /\ Len(s.reverted) >= 2

====
